---- MODULE Spec2Model ----
(***************************************************************************)
(* MarketMiner: the fetch orchestrator (MarketMinerGUI.start_scraping,     *)
(* stop_scraping, scrape_worker), its worker pool, the skip cache          *)
(* (save_skip), the result-store merge and the cross-server comparison     *)
(* (_compute_comparison).                                                  *)
(***************************************************************************)
EXTENDS Integers, Sequences, FiniteSets, TLC

\* ------------------------------------------------------------- bounds
\* The item-id range entered in the configuration panel (from_id < to_id).
FromId == 1
ToId == 2
\* How many times Start is pressed.
MaxRuns == 2

Items == FromId..ToId

\* get_output_file() names the result table after the second it is called in:
\* the seconds told apart.
MaxStamp == 2
Stamps == 1..MaxStamp
Runs == 1..MaxRuns

\* ------------------------------------------------------------- strings
\* A Python string is a sequence of tokens: the characters the code looks
\* at (";" and " ") are tokens of their own; any other token is a run of
\* characters holding neither.
Semi == ";"
Space == " "

RECURSIVE lstrip(_)
lstrip(s) == IF s # <<>> /\ Head(s) = Space THEN lstrip(Tail(s)) ELSE s

RECURSIVE rstrip(_)
rstrip(s) ==
    IF s # <<>> /\ s[Len(s)] = Space THEN rstrip(SubSeq(s, 1, Len(s) - 1)) ELSE s

\* str.strip()
strip(s) == rstrip(lstrip(s))

\* str.split(";"): the pieces between the semicolons, empty ones included.
RECURSIVE split(_, _)
split(s, cur) ==
    IF s = <<>> THEN <<cur>>
    ELSE IF Head(s) = Semi THEN <<cur>> \o split(Tail(s), <<>>)
    ELSE split(Tail(s), Append(cur, Head(s)))

\* "; ".join(parts)
RECURSIVE join(_)
join(parts) ==
    IF parts = <<>> THEN <<>>
    ELSE IF Len(parts) = 1 THEN parts[1]
    ELSE parts[1] \o <<Semi, Space>> \o join(Tail(parts))

\* [p.strip() for p in existing.split(";") if p.strip()] if existing else []
RECURSIVE stripNonEmpty(_)
stripNonEmpty(ps) ==
    IF ps = <<>> THEN <<>>
    ELSE IF strip(Head(ps)) # <<>>
         THEN <<strip(Head(ps))>> \o stripNonEmpty(Tail(ps))
         ELSE stripNonEmpty(Tail(ps))

reason_parts(existing) ==
    IF existing = <<>> THEN <<>> ELSE stripNonEmpty(split(existing, <<>>))

SeqToSet(s) == {s[k] : k \in 1..Len(s)}

\* str(n) of a non-negative integer: its decimal digits.
RECURSIVE str_int(_)
str_int(n) == IF n < 10 THEN <<n>> ELSE Append(str_int(n \div 10), n % 10)

Digits == {"0", "1", "2", "3", "4", "5", "6", "7", "8", "9"}

digit_value(c) ==
    CASE c = "0" -> 0 [] c = "1" -> 1 [] c = "2" -> 2 [] c = "3" -> 3 [] c = "4" -> 4
      [] c = "5" -> 5 [] c = "6" -> 6 [] c = "7" -> 7 [] c = "8" -> 8 [] c = "9" -> 9

\* str.isdigit(): not empty, digits only.
isdigit(t) == t # <<>> /\ \A k \in 1..Len(t) : t[k] \in Digits

\* int(t) of a text of digits.
RECURSIVE int(_)
int(t) ==
    IF t = <<>> THEN 0
    ELSE int(SubSeq(t, 1, Len(t) - 1)) * 10 + digit_value(t[Len(t)])

\* The decimal digits of a number >= 0 as the characters of an entry.
digit_char(n) == CHOOSE c \in Digits : digit_value(c) = n

RECURSIVE decimal(_)
decimal(n) == IF n < 10 THEN <<digit_char(n)>> ELSE Append(decimal(n \div 10), digit_char(n % 10))

\* The keys of skipped_items.json: str(item_id).
SkipKeys == {str_int(i) : i \in Items}

\* The exclusion reasons the worker passes to save_skip.
NonSellable == <<"non-sellable/non-tradeable">>
NoPrice == <<"no", Space, "price", Space, "found">>
NotExist == <<"item", Space, "does", Space, "not", Space, "exist">>
NoName == <<"no", Space, "item", Space, "name">>
FetchFailed == <<"failed", Space, "to", Space, "fetch", Space, "or", Space, "parse">>
\* f"validation error: {e}", the text of e taken as one word.
ValidationError == <<"validation", Space, "error:", Space, "e">>


\* ------------------------------------------------------------- records
\* SERVERS, the static name -> id table of market_miner/servers.py; the
\* selection dialog lists its keys sorted.
SERVERS == {"Asura", "Bahamut", "Carbuncle"}

Jobs == Items \X SERVERS

\* What get_item_data returns: None, or the item_data dict (the fields the
\* orchestrator reads).  rarity is the set of flags joined in the string.
None == [none |-> TRUE]
Doc(n, p, sp, r) == [name |-> n, price |-> p, stack_price |-> sp, rarity |-> r]
DocUnknown == Doc("Unknown", 0, 0, {})
DocNoPrice == Doc("Potion", 0, 0, {})
DocFlagged == Doc("Potion", 0, 0, {"Exclusive"})
DocPriced == Doc("Potion", 100, 0, {})
DocPricedHigh == Doc("Potion", 150, 60, {})
\* A page whose stats hold "ex" and whose "Median" row holds a price.
DocFlaggedPriced == Doc("Potion", 1200, 0, {"Exclusive"})
Docs == {None, DocUnknown, DocNoPrice, DocFlagged, DocPriced, DocPricedHigh}

\* The document of a fetched job: the one the remote catalog holds.
doc_of(catalog, j) == CHOOSE d \in catalog[j] : TRUE

\* any(flag in rarity for flag in ["Exclusive", "No Auction", "No Sale"])
non_sellable(rarity) == rarity \cap {"Exclusive", "No Auction", "No Sale"} # {}

\* row = dict(result); row["server"] = sname
Row(i, s, d) ==
    [itemid |-> i, name |-> d.name, price |-> d.price,
     stack_price |-> d.stack_price, rarity |-> d.rarity, server |-> s]

\* ------------------------------------------------------------- state
VARIABLES
    selected_servers,  \* config_panel.get_selected_servers()
    max_threads,       \* config_panel.thread_var
    is_running,        \* self.is_running
    executor,          \* self.executor: 0 (None) or the run whose pool it is
    start_btn,         \* state of the Start button
    stop_btn,          \* state of the Stop button
    gui,               \* the GUI thread: "idle", or inside stop_scraping
    nruns,             \* scrape_worker threads started so far
    start_budget,      \* how many times the user presses Start
    upstream,          \* the remote catalog: job -> the documents it may hold;
                       \* the first fetch settles which (no upstream change)
    skipped_items,     \* skipped_items.json: item -> entry, or NoEntry
    csv_files,       \* the result tables by path: the rows as read back
    w,                 \* per run: the locals of scrape_worker and its pool
    h                  \* per run: history (what was scheduled, handled, when)

VARIABLES
    call,              \* a function under check: its arguments
    ret                \* and what it returned

fnVars == <<call, ret>>

orchVars == <<selected_servers, max_threads, is_running, executor, start_btn,
              stop_btn, gui, nruns, start_budget, upstream, skipped_items,
              csv_files, w, h>>

NoEntry == [absent |-> TRUE]

\* scrape_worker's locals before the thread runs.
IdleWorker ==
    [pc |-> "idle",
     output_file |-> 0,        \* the path get_output_file() gave; 0: not read yet
     known_skipped |-> [k \in SkipKeys |-> NoEntry],
     fut |-> [j \in Jobs |-> "none"],
     queue |-> <<>>,
     shut |-> FALSE,
     validated_items |-> {},
     items_data |-> {},
     per_item_bucket |-> [i \in Items |-> <<>>],
     comparison_data |-> <<>>,
     data |-> <<>>]            \* <<job, file>>: save_skip has read the file (424)
                               \* for this job and has not written it yet

IdleHistory ==
    [cache_at_start |-> [k \in SkipKeys |-> NoEntry],
                               \* the skip file when Start was pressed
     store_at_start |-> [t \in Stamps |-> {}],
                               \* the result tables when Start was pressed
     stop_seen |-> FALSE,      \* stop_scraping cleared the flag during the run
     after_stop |-> {},        \* jobs submitted after that
     late |-> {},              \* jobs whose fetch completed after that
     handled |-> {},           \* jobs whose result the loops processed
     prev_reported |-> {},     \* the "previously skipped" lines: <<item, name, reason>>
     skips |-> {},             \* the save_skip calls: <<job, name, reason>>
     failed |-> FALSE,         \* the worker left through "except Exception"
     raised |-> {},            \* <<job, statement>>: a widget call that raised
     compared |-> {},          \* <<item, n>>: _compute_comparison called on n records
     submitted |-> <<>>]       \* the jobs passed to executor.submit, in order

is_multi == Len(selected_servers) > 1
val_sname == selected_servers[1]
server_ids == SeqToSet(selected_servers)

\* ------------------------------------------------------------- skip cache
\* save_skip without "if reason not in parts": every call appends its reason.
save_skip_entry_appending(old, name0, reason) ==
    LET name == IF name0 = "" THEN "Unknown" ELSE name0
        entry == IF old = NoEntry THEN [name |-> name, reason |-> <<>>] ELSE old
        named == IF entry.name = "Unknown" /\ name # "Unknown"
                 THEN [entry EXCEPT !.name = name] ELSE entry
    IN  [named EXCEPT !.reason = join(Append(reason_parts(named.reason), reason))]

\* save_skip taking the name of every call that supplies one.
save_skip_entry_renaming(old, name0, reason) ==
    LET name == IF name0 = "" THEN "Unknown" ELSE name0
        entry == IF old = NoEntry THEN [name |-> name, reason |-> reason] ELSE old
        named == IF name # "Unknown" THEN [entry EXCEPT !.name = name] ELSE entry
        parts == reason_parts(named.reason)
        parts2 == IF reason \in SeqToSet(parts) THEN parts ELSE Append(parts, reason)
    IN  [named EXCEPT !.reason = join(parts2)]

\* save_skip(item_id, name, reason): read, merge one entry, write back.
save_skip_entry(old, name0, reason) ==
    LET name == IF name0 = "" THEN "Unknown" ELSE name0
        entry == IF old = NoEntry THEN [name |-> name, reason |-> reason] ELSE old
        named == IF entry.name = "Unknown" /\ name # "Unknown"
                 THEN [entry EXCEPT !.name = name] ELSE entry
        parts == reason_parts(named.reason)
        parts2 == IF reason \in SeqToSet(parts) THEN parts ELSE Append(parts, reason)
    IN  [named EXCEPT !.reason = join(parts2)]

\* skipped_items.json after open(skipped_path, "w") emptied it and the dump
\* did not finish: empty, or the beginning of a JSON text.
Truncated == [k \in SkipKeys |-> [truncated |-> TRUE]]

\* Lines 409-417: json.load of the skip file, {} when it raises.
json_load(file) == IF file = Truncated THEN [k \in SkipKeys |-> NoEntry] ELSE file

\* json.load raising inside save_skip is caught by its except: nothing is
\* written.
save_skip(file, item_id, name, reason) ==
    LET key == str_int(item_id)
    IN  IF file = Truncated THEN file
        ELSE [file EXCEPT ![key] = save_skip_entry(file[key], name, reason)]

\* The keys of a skip file (or of known_skipped, the dict loaded from it).
skip_keys(file) == {k \in DOMAIN file : file[k] # NoEntry}

\* ------------------------------------------------------------- comparison
\* The entries of server_data_list whose price of the given type is > 0, in
\* list order: the server_prices dict (insertion ordered).
price_of(d, price_type) == IF price_type = "stack" THEN d.stack_price ELSE d.price

\* The filter of server_prices with ">= 0" for "> 0".
RECURSIVE server_prices_nonneg(_, _)
server_prices_nonneg(list, price_type) ==
    IF list = <<>> THEN <<>>
    ELSE LET d == Head(list)
             rest == server_prices_nonneg(Tail(list), price_type)
         IN  IF price_of(d, price_type) >= 0
             THEN <<[server |-> d.server, price |-> price_of(d, price_type)]>> \o rest
             ELSE rest

RECURSIVE server_prices(_, _)
server_prices(list, price_type) ==
    IF list = <<>> THEN <<>>
    ELSE LET d == Head(list)
             rest == server_prices(Tail(list), price_type)
         IN  IF price_of(d, price_type) > 0
             THEN <<[server |-> d.server, price |-> price_of(d, price_type)]>> \o rest
             ELSE rest

\* The first key of server_prices taken for the one of least value.
min_server_first(sp) == sp[1].server

\* min(server_prices, key=server_prices.get): the first key of least value.
min_server(sp) ==
    LET k == CHOOSE a \in 1..Len(sp) :
                 /\ \A b \in 1..Len(sp) : sp[a].price <= sp[b].price
                 /\ \A b \in 1..(a - 1) : sp[b].price > sp[a].price
    IN  sp[k].server

\* max(server_prices, key=server_prices.get): the first key of greatest value.
max_server(sp) ==
    LET k == CHOOSE a \in 1..Len(sp) :
                 /\ \A b \in 1..Len(sp) : sp[a].price >= sp[b].price
                 /\ \A b \in 1..(a - 1) : sp[b].price < sp[a].price
    IN  sp[k].server

price_at(sp, server) == (CHOOSE e \in SeqToSet(sp) : e.server = server).price

RECURSIVE sum_prices(_)
sum_prices(sp) == IF sp = <<>> THEN 0 ELSE Head(sp).price + sum_prices(Tail(sp))

\* _compute_comparison: None, or the comparison record.  The average is the
\* quotient sum / count, kept as that fraction.  The name and category
\* copied from the first record are left out; price_type marks which of the
\* two calls of the caller made the row.
_compute_comparison(item_id, server_data_list, price_type) ==
    LET sp == server_prices(server_data_list, price_type)
    IN  IF Len(sp) < 2 THEN None
        ELSE LET lowest_server == min_server(sp)
                 highest_server == max_server(sp)
                 lowest_price == price_at(sp, lowest_server)
                 highest_price == price_at(sp, highest_server)
             IN  [itemid |-> item_id,
                  price_type |-> price_type,
                  lowest_price |-> lowest_price,
                  lowest_server |-> lowest_server,
                  highest_price |-> highest_price,
                  highest_server |-> highest_server,
                  average_price |-> [num |-> sum_prices(sp), den |-> Len(sp)],
                  price_difference |-> highest_price - lowest_price,
                  server_count |-> Len(sp)]

\* ------------------------------------------------------------- result store
\* A cell of a row is a Python int (a row of this run) or a string (a row read
\* back by csv.DictReader): str(cell) is what _key and the csv writer make of it.
IntCell(n) == [int |-> n]
StrCell(digits) == [str |-> digits]
str(cell) == IF "int" \in DOMAIN cell THEN StrCell(str_int(cell.int)) ELSE cell

\* One entry of items_data, as the dict appended to the list.
DataRow(row) ==
    [itemid |-> IntCell(row.itemid), price |-> IntCell(row.price),
     stack_price |-> IntCell(row.stack_price), name |-> row.name,
     server |-> row.server]

\* _key without str(): the cells as they are.
_key_raw(row) == <<row.itemid, row.server>>

\* _key(row) = (str(row["itemid"]), str(row["server"]))
_key(row) == <<str(row.itemid), row.server>>

\* csv.DictWriter.writerows: every cell written as its str().
csv_row(row) ==
    [row EXCEPT !.itemid = str(row.itemid), !.price = str(row.price),
                !.stack_price = str(row.stack_price)]

\* The file rewritten from items_data alone.
merge_rows_fresh(existing_rows, items_data) == {csv_row(r) : r \in items_data}

\* merged = {_key(r): r for r in existing_rows}; merged[_key(r)] = r for the
\* rows of items_data; the file then holds merged.values().
merge_rows(existing_rows, items_data) ==
    LET keys == {_key(r) : r \in existing_rows} \cup {_key(r) : r \in items_data}
        merged == [k \in keys |->
                     IF \E r \in items_data : _key(r) = k
                     THEN CHOOSE r \in items_data : _key(r) = k
                     ELSE CHOOSE r \in existing_rows : _key(r) = k]
    IN  {csv_row(merged[k]) : k \in keys}


\* ------------------------------------------------------------- worker pool
\* The elements of a set of items in ascending order (range(from_id, to_id + 1)).
RECURSIVE ascending(_)
ascending(S) ==
    IF S = {} THEN <<>>
    ELSE LET m == CHOOSE x \in S : \A y \in S : x <= y
         IN  <<m>> \o ascending(S \ {m})

RECURSIVE SeqFilter(_, _)
SeqFilter(seq, S) ==
    IF seq = <<>> THEN <<>>
    ELSE IF Head(seq) \in S THEN <<Head(seq)>> \o SeqFilter(Tail(seq), S)
         ELSE SeqFilter(Tail(seq), S)

\* [(i, s) for i in items for s in servers]
RECURSIVE job_list(_, _)
job_list(items, servers) ==
    IF items = <<>> THEN <<>>
    ELSE [k \in 1..Len(servers) |-> <<Head(items), servers[k]>>]
         \o job_list(Tail(items), servers)

\* executor.submit for every job of the list; the pool queues them in order.
submit(wr, jobs) ==
    [wr EXCEPT !.fut = [j \in Jobs |-> IF j \in SeqToSet(jobs) THEN "pending" ELSE @[j]],
               !.queue = @ \o jobs]

\* executor.shutdown(wait=False, cancel_futures=True): the queued work items
\* are drained and their futures cancelled; running ones go on.
shutdown_cancel(wr) ==
    [wr EXCEPT !.shut = TRUE,
               !.queue = <<>>,
               !.fut = [j \in Jobs |-> IF @[j] = "pending" THEN "cancelled" ELSE @[j]]]

running(wr) == {j \in Jobs : wr.fut[j] = "running"}

\* A pool that starts a thread for every queued work item.
pool_take_unbounded(r) ==
    /\ w[r].queue # <<>>
    /\ w' = [w EXCEPT ![r].fut[Head(w[r].queue)] = "running",
                      ![r].queue = Tail(@)]
    /\ UNCHANGED <<call, ret, selected_servers, max_threads, start_budget, is_running, executor, start_btn,
                   stop_btn, gui, nruns, upstream, skipped_items, csv_files, h>>

\* A pool thread takes the next queued work item.
pool_take(r) ==
    /\ w[r].queue # <<>>
    /\ Cardinality(running(w[r])) < max_threads
    /\ w' = [w EXCEPT ![r].fut[Head(w[r].queue)] = "running",
                      ![r].queue = Tail(@)]
    /\ UNCHANGED <<call, ret, selected_servers, max_threads, start_budget, is_running, executor, start_btn,
                   stop_btn, gui, nruns, upstream, skipped_items, csv_files, h>>

\* A remote that accepts the connection and never sends its response.
Silent == [silent |-> TRUE]

\* session.head (23), session.post (28) and session.get (115) are called
\* without timeout=: requests then waits for the response without limit, so
\* the call returns only if the remote answers.
request_returns(d) == d # Silent

\* scraper.get_item_data(item_id, sid) returns: the future is finished.
get_item_data(r, j) ==
    /\ w[r].fut[j] = "running"
    /\ \E d \in upstream[j] :
          /\ request_returns(d)
          /\ upstream' = [upstream EXCEPT ![j] = {d}]
    /\ w' = [w EXCEPT ![r].fut[j] = "done"]
    /\ h' = [h EXCEPT ![r].late = IF h[r].stop_seen THEN @ \cup {j} ELSE @]
    /\ UNCHANGED <<call, ret, selected_servers, max_threads, start_budget, is_running, executor, start_btn,
                   stop_btn, gui, nruns, skipped_items, csv_files>>

\* ------------------------------------------------------------- GUI thread
start_scraping ==
    /\ gui = "idle"
    /\ start_btn = "normal"
    /\ nruns < start_budget
    /\ is_running' = TRUE
    /\ start_btn' = "disabled"
    /\ stop_btn' = "normal"
    /\ nruns' = nruns + 1
    /\ w' = [w EXCEPT ![nruns + 1].pc = "start"]
    /\ h' = [h EXCEPT ![nruns + 1].cache_at_start = skipped_items,
                      ![nruns + 1].store_at_start = csv_files]
    /\ UNCHANGED <<call, ret, selected_servers, max_threads, start_budget, executor, gui, upstream,
                   skipped_items, csv_files>>

alive(r) == w[r].pc \notin {"idle", "done"}

\* int(s) of an entry text: blanks around it dropped, an optional "-", then
\* digits.  <<n>>, or <<>> for ValueError.
parse_int(t) ==
    LET u == strip(t)
    IN  IF isdigit(u) THEN <<int(u)>>
        ELSE IF u # <<>> /\ Head(u) = "-" /\ isdigit(Tail(u)) THEN <<0 - int(Tail(u))>>
        ELSE <<>>

\* The checks of start_scraping without the one on the thread count.
start_error_any_threads(from_var, to_var, thread_var, servers) ==
    IF parse_int(from_var) = <<>> \/ parse_int(to_var) = <<>> \/ parse_int(thread_var) = <<>>
    THEN "Please enter valid numbers"
    ELSE IF parse_int(from_var)[1] >= parse_int(to_var)[1]
    THEN "From ID must be less than To ID"
    ELSE IF servers = <<>> THEN "Select at least one server."
    ELSE ""

\* Lines 353-374: the message of the error box start_scraping shows and
\* returns after, "" when it goes on.
start_error(from_var, to_var, thread_var, servers) ==
    IF parse_int(from_var) = <<>> \/ parse_int(to_var) = <<>> \/ parse_int(thread_var) = <<>>
    THEN "Please enter valid numbers"
    ELSE IF parse_int(from_var)[1] >= parse_int(to_var)[1]
    THEN "From ID must be less than To ID"
    ELSE IF ~(1 <= parse_int(thread_var)[1] /\ parse_int(thread_var)[1] <= 10)
    THEN "Thread count must be between 1 and 10"
    ELSE IF servers = <<>> THEN "Select at least one server."
    ELSE ""

\* start_scraping on the texts of the three entries (call): the checks of
\* lines 353-374, then lines 381-385 as in start_scraping above.
start_scraping_form ==
    /\ ret = <<>>
    /\ gui = "idle"
    /\ start_btn = "normal"
    /\ LET error == start_error(call.from_var, call.to_var, call.thread_var,
                               selected_servers)
       IN  IF error # ""
           THEN /\ ret' = <<error>>
                /\ UNCHANGED <<is_running, start_btn, stop_btn, nruns, w, h>>
           ELSE /\ ret' = <<"started">>
                /\ is_running' = TRUE
                /\ start_btn' = "disabled"
                /\ stop_btn' = "normal"
                /\ nruns' = nruns + 1
                /\ w' = [w EXCEPT ![nruns + 1].pc = "start"]
                /\ h' = [h EXCEPT ![nruns + 1].cache_at_start = skipped_items,
                                  ![nruns + 1].store_at_start = csv_files]
    /\ UNCHANGED <<call, selected_servers, max_threads, start_budget, executor, gui, upstream,
                   skipped_items, csv_files>>

\* stop_scraping, first statement: self.is_running = False
stop_scraping_flag ==
    /\ gui = "idle"
    /\ stop_btn = "normal"
    /\ is_running' = FALSE
    /\ gui' = "stopping"
    /\ h' = [r \in Runs |-> IF alive(r) THEN [h[r] EXCEPT !.stop_seen = TRUE] ELSE h[r]]
    /\ UNCHANGED <<call, ret, selected_servers, max_threads, start_budget, executor, start_btn, stop_btn,
                   nruns, upstream, skipped_items, csv_files, w>>

\* stop_scraping, the rest: shut the pool self.executor names, flip the buttons.
stop_scraping_shutdown ==
    /\ gui = "stopping"
    /\ w' = IF executor # 0 THEN [w EXCEPT ![executor] = shutdown_cancel(@)] ELSE w
    /\ start_btn' = "normal"
    /\ stop_btn' = "disabled"
    /\ gui' = "idle"
    /\ UNCHANGED <<call, ret, selected_servers, max_threads, start_budget, is_running, executor, nruns,
                   upstream, skipped_items, csv_files, h>>


\* ------------------------------------------------------------- scrape_worker
\* The lines that change the state of a run, its history and the skip file
\* work on one record st = [w, h, file].
Skipped(st, j, name, reason) ==
    [st EXCEPT !.file = save_skip(@, j[1], name, reason),
               !.h.skips = @ \cup {<<j, name, reason>>}]

\* The reason without the look at the flags.
skip_reason_plain(rarity) == NoPrice

\* The reason given for a named record without a price.
skip_reason(rarity) == IF non_sellable(rarity) THEN NonSellable ELSE NoPrice

\* The validation test without the flag test of lines 529-533.
validates_flagged(d) == d # None /\ d.name # "Unknown"

\* The validation result reaches validated_items.add(item_id).
validates(d) == d # None /\ d.name # "Unknown" /\ ~non_sellable(d.rarity)

\* The whole range, known_skipped not consulted.
items_to_check_all(known_skipped) == Items

\* Items of the range not in known_skipped.
items_to_check(known_skipped) ==
    {i \in Items : str_int(i) \notin skip_keys(known_skipped)}

\* The "previously skipped: <reason>" lines logged for the other items.
previously_skipped(known_skipped) ==
    {<<i, known_skipped[str_int(i)].name, known_skipped[str_int(i)].reason>> :
        i \in Items \ items_to_check(known_skipped)}

\* The body of the validation loop for one completed future.
handle_validation(st, j, d) ==
    LET i == j[1]
        row == Row(i, val_sname, d)
    IN  IF validates(d)
        THEN LET st1 == [st EXCEPT !.w.validated_items = @ \cup {i}]
             IN  IF row.price > 0
                 THEN [st1 EXCEPT !.w.items_data = @ \cup {row},
                                  !.w.per_item_bucket[i] = Append(@, row)]
                 ELSE Skipped(st1, j, row.name, skip_reason(row.rarity))
        ELSE IF d # None /\ d.name # "Unknown"
             THEN Skipped(st, j, d.name, NonSellable)
             ELSE Skipped(st, j, "Unknown", NotExist)

\* The bucket test with "some record is in" in place of "all are in".
bucket_started(bucket) == Len(bucket) >= 1

\* The bucket test as "two records or more are in".
bucket_pair(bucket) == Len(bucket) >= 2

\* len(per_item_bucket[item_id]) == len(server_ids)
bucket_full(bucket) == Len(bucket) = Len(selected_servers)

\* Both comparisons of a full bucket, appended to comparison_data.
compare_bucket(wr, i) ==
    LET bucket == wr.per_item_bucket[i]
        cmp_row == _compute_comparison(i, bucket, "individual")
        stack_cmp_row == _compute_comparison(i, bucket, "stack")
    IN  [wr EXCEPT !.comparison_data =
            @ \o (IF cmp_row # None THEN <<cmp_row>> ELSE <<>>)
              \o (IF stack_cmp_row # None THEN <<stack_cmp_row>> ELSE <<>>)]

\* The body of the main result loop for one completed future.
handle_result(st, j, d) ==
    LET i == j[1]
        row == Row(i, j[2], d)
    IN  IF d # None
        THEN IF row.name = "Unknown"
             THEN Skipped(st, j, "Unknown", NoName)
             ELSE IF row.price > 0
                  THEN LET st1 == [st EXCEPT !.w.items_data = @ \cup {row}]
                           st2 == [st1 EXCEPT !.w.per_item_bucket[i] = Append(@, row)]
                       IN  IF ~is_multi THEN st1
                           ELSE IF bucket_full(st2.w.per_item_bucket[i])
                                THEN [st2 EXCEPT !.w = compare_bucket(@, i),
                                                 !.h.compared = @ \cup
                                                    {<<i, Len(st2.w.per_item_bucket[i])>>}]
                                ELSE st2
                  ELSE Skipped(st, j, row.name, skip_reason(row.rarity))
        ELSE Skipped(st, j, "Unknown", FetchFailed)

\* The futures a loop iterates over, and those as_completed has yet to yield.
validation_jobs == {j \in Jobs : j[2] = val_sname}
fut_to_key == IF is_multi THEN Jobs \ validation_jobs ELSE Jobs
unyielded(wr, jobs) == {j \in jobs : wr.fut[j] \in {"pending", "running", "done", "cancelled"}}

\* Lines 399-491: read the inputs, load known_skipped, create the pool.
scrape_worker_enter(r) ==
    /\ w[r].pc = "start"
    /\ \E timestamp \in Stamps :
          /\ \A q \in Runs : w[q].output_file <= timestamp
          /\ w' = [w EXCEPT ![r].output_file = timestamp,
                            ![r].known_skipped = json_load(skipped_items),
                            ![r].pc = "submit"]
    /\ executor' = r
    /\ UNCHANGED <<call, ret, selected_servers, max_threads, start_budget, is_running, start_btn, stop_btn,
                   gui, nruns, upstream, skipped_items, csv_files, h>>

\* The first submission made for every selected server at once.
scrape_worker_submit_all(r) ==
    LET checked == items_to_check(w[r].known_skipped)
        jobs == job_list(ascending(checked), selected_servers)
    IN  /\ w[r].pc = "submit"
        /\ w' = [w EXCEPT ![r] = [submit(@, jobs) EXCEPT
                         !.pc = IF is_multi THEN "validate" ELSE "main"]]
        /\ h' = [h EXCEPT ![r].prev_reported = previously_skipped(w[r].known_skipped),
                          ![r].submitted = @ \o jobs]
        /\ UNCHANGED <<call, ret, selected_servers, max_threads, start_budget, is_running, executor, start_btn,
                       stop_btn, gui, nruns, upstream, skipped_items, csv_files>>

\* Lines 494-516 and 607-625: report the known items, submit the first jobs.
\* submit raises RuntimeError on a pool that stop_scraping has shut down.
scrape_worker_submit(r) ==
    LET checked == items_to_check(w[r].known_skipped)
        jobs == job_list(ascending(checked), <<val_sname>>)
    IN  /\ w[r].pc = "submit"
        /\ IF jobs # <<>> /\ w[r].shut
           THEN /\ w' = [w EXCEPT ![r].pc = "raised"]
                /\ h' = [h EXCEPT ![r].prev_reported = previously_skipped(w[r].known_skipped)]
           ELSE /\ w' = [w EXCEPT ![r] = [submit(@, jobs) EXCEPT
                                !.pc = IF is_multi THEN "validate" ELSE "main"]]
                /\ h' = [h EXCEPT ![r].prev_reported = previously_skipped(w[r].known_skipped),
                                  ![r].submitted = @ \o jobs,
                                  ![r].after_stop =
                                      IF h[r].stop_seen THEN @ \cup SeqToSet(jobs) ELSE @]
        /\ UNCHANGED <<call, ret, selected_servers, max_threads, start_budget, is_running, executor, start_btn,
                       stop_btn, gui, nruns, upstream, skipped_items, csv_files>>

\* The dict save_skip merges its entry into: the file as json.load read it,
\* now or in an earlier step of the same call.
save_skip_data(wr) == IF wr.data = <<>> THEN skipped_items ELSE wr.data[2]

\* The first half of a save_skip call made for the result of job j: the loop
\* has passed its test of is_running and the tests that lead to the call,
\* and save_skip has read the file (lines 421-424).  The second half, from
\* the merge to the write of lines 444-446, is the rest of
\* scrape_worker_validate or scrape_worker_result.
save_skip_read(r, j) ==
    /\ w[r].data = <<>>
    /\ w[r].fut[j] = "done"
    /\ is_running
    /\ LET st0 == [w |-> w[r], h |-> h[r], file |-> skipped_items]
           d == doc_of(upstream, j)
       IN  \/ /\ w[r].pc = "validate"
              /\ j \in validation_jobs
              /\ handle_validation(st0, j, d).h.skips # h[r].skips
           \/ /\ w[r].pc = "main"
              /\ j \in fut_to_key
              /\ handle_result(st0, j, d).h.skips # h[r].skips
    /\ w' = [w EXCEPT ![r].data = <<j, skipped_items>>]
    /\ UNCHANGED <<call, ret, selected_servers, max_threads, start_budget, is_running, executor,
                   start_btn, stop_btn, gui, nruns, upstream, skipped_items, csv_files, h>>

\* Lines 518-591: as_completed yields a finished validation future.
scrape_worker_validate(r, j) ==
    /\ w[r].pc = "validate"
    /\ j \in validation_jobs
    /\ w[r].fut[j] = "done"
    /\ IF w[r].data = <<>> THEN TRUE ELSE w[r].data[1] = j
    /\ IF ~is_running /\ w[r].data = <<>>
       THEN /\ w' = [w EXCEPT ![r].pc = "phase2"]
            /\ UNCHANGED <<skipped_items, h>>
       ELSE LET st == handle_validation(
                         [w |-> [w[r] EXCEPT !.fut[j] = "handled", !.data = <<>>],
                          h |-> [h[r] EXCEPT !.handled = @ \cup {j}],
                          file |-> save_skip_data(w[r])], j, doc_of(upstream, j))
            IN  /\ w' = [w EXCEPT ![r] = st.w]
                /\ h' = [h EXCEPT ![r] = st.h]
                /\ skipped_items' = st.file
    /\ UNCHANGED <<call, ret, selected_servers, max_threads, start_budget, is_running, executor, start_btn,
                   stop_btn, gui, nruns, upstream, csv_files>>

\* The validation loop ends: every validation future has been yielded.
scrape_worker_validated(r) ==
    /\ w[r].pc = "validate"
    /\ unyielded(w[r], validation_jobs) = {}
    /\ w' = [w EXCEPT ![r].pc = "phase2"]
    /\ UNCHANGED <<call, ret, selected_servers, max_threads, start_budget, is_running, executor, start_btn,
                   stop_btn, gui, nruns, upstream, skipped_items, csv_files, h>>

\* The servers of phase 2 with the validation server left in.
remaining_servers_all == selected_servers

\* Line 594: the selected servers other than the validation server.
remaining_servers == SeqFilter(selected_servers, server_ids \ {val_sname})

\* Lines 593-605: the validated items on the remaining servers.
scrape_worker_phase2(r) ==
    LET jobs == job_list(ascending(w[r].validated_items), remaining_servers)
    IN  /\ w[r].pc = "phase2"
        /\ IF jobs # <<>> /\ w[r].shut
           THEN /\ w' = [w EXCEPT ![r].pc = "raised"]
                /\ UNCHANGED h
           ELSE /\ w' = [w EXCEPT ![r] = [submit(@, jobs) EXCEPT !.pc = "main"]]
                /\ h' = [h EXCEPT ![r].submitted = @ \o jobs,
                                  ![r].after_stop =
                                      IF h[r].stop_seen THEN @ \cup SeqToSet(jobs) ELSE @]
        /\ UNCHANGED <<call, ret, selected_servers, max_threads, start_budget, is_running, executor, start_btn,
                       stop_btn, gui, nruns, upstream, skipped_items, csv_files>>

\* Lines 627-728: as_completed yields a finished future of fut_to_key.
scrape_worker_result(r, j) ==
    /\ w[r].pc = "main"
    /\ j \in fut_to_key
    /\ w[r].fut[j] = "done"
    /\ IF w[r].data = <<>> THEN TRUE ELSE w[r].data[1] = j
    /\ IF ~is_running /\ w[r].data = <<>>
       THEN /\ w' = [w EXCEPT ![r].pc = "exit"]
            /\ UNCHANGED <<skipped_items, h>>
       ELSE LET st == handle_result(
                         [w |-> [w[r] EXCEPT !.fut[j] = "handled", !.data = <<>>],
                          h |-> [h[r] EXCEPT !.handled = @ \cup {j}],
                          file |-> save_skip_data(w[r])], j, doc_of(upstream, j))
            IN  /\ w' = [w EXCEPT ![r] = st.w]
                /\ h' = [h EXCEPT ![r] = st.h]
                /\ skipped_items' = st.file
    /\ UNCHANGED <<call, ret, selected_servers, max_threads, start_budget, is_running, executor, start_btn,
                   stop_btn, gui, nruns, upstream, csv_files>>

\* The main loop ends: every future of fut_to_key has been yielded.
scrape_worker_results_done(r) ==
    /\ w[r].pc = "main"
    /\ unyielded(w[r], fut_to_key) = {}
    /\ w' = [w EXCEPT ![r].pc = "exit"]
    /\ UNCHANGED <<call, ret, selected_servers, max_threads, start_budget, is_running, executor, start_btn,
                   stop_btn, gui, nruns, upstream, skipped_items, csv_files, h>>

\* The calls on widgets made from the worker thread (results_tab.add_row,
\* cross_server_tab.add_comparison_row, the progress labels) raise when the
\* window is gone or its main loop is not running.  In the validation loop
\* add_row (542) is inside the try of lines 524-569 and the progress update
\* (577-591) is after it; "where" is the call that raises.
scrape_worker_validate_raise(r, j) ==
    /\ w[r].pc = "validate"
    /\ j \in validation_jobs
    /\ w[r].fut[j] = "done"
    /\ is_running
    /\ LET d == doc_of(upstream, j)
           st0 == [w |-> [w[r] EXCEPT !.fut[j] = "handled"],
                   h |-> [h[r] EXCEPT !.handled = @ \cup {j}],
                   file |-> skipped_items]
       IN  \E where \in {"add_row", "progress"} :
             LET st == IF where = "add_row"
                       THEN Skipped([st0 EXCEPT !.w.validated_items = @ \cup {j[1]}],
                                    j, "Unknown", ValidationError)
                       ELSE [handle_validation(st0, j, d) EXCEPT !.w.pc = "raised"]
             IN  /\ where = "add_row" => validates(d) /\ d.price > 0
                 /\ w' = [w EXCEPT ![r] = st.w]
                 /\ h' = [h EXCEPT ![r] = [st.h EXCEPT !.raised = @ \cup {<<j, where>>}]]
                 /\ skipped_items' = st.file
    /\ UNCHANGED <<call, ret, selected_servers, max_threads, start_budget, is_running, executor, start_btn,
                   stop_btn, gui, nruns, upstream, csv_files>>

\* In the main loop the whole body, progress update included, is inside the
\* try of lines 634-728: the statements before the call that raises have
\* run, the rest of the body is skipped and the loop goes on.
scrape_worker_result_raise(r, j) ==
    /\ w[r].pc = "main"
    /\ j \in fut_to_key
    /\ w[r].fut[j] = "done"
    /\ is_running
    /\ LET d == doc_of(upstream, j)
           st0 == [w |-> [w[r] EXCEPT !.fut[j] = "handled"],
                   h |-> [h[r] EXCEPT !.handled = @ \cup {j}],
                   file |-> skipped_items]
           priced == d # None /\ d.name # "Unknown" /\ d.price > 0
           row == Row(j[1], j[2], d)
           full == is_multi /\ Len(w[r].per_item_bucket[j[1]]) + 1 = Len(selected_servers)
       IN  \E where \in {"add_row", "add_comparison_row", "progress"} :
             LET st == IF where = "add_row" THEN st0
                       ELSE IF where = "add_comparison_row"
                       THEN [st0 EXCEPT !.w.items_data = @ \cup {row},
                                        !.w.per_item_bucket[j[1]] = Append(@, row)]
                       ELSE handle_result(st0, j, d)
             IN  /\ where = "add_row" => priced
                 /\ where = "add_comparison_row" =>
                        /\ priced /\ full
                        /\ _compute_comparison(j[1], Append(w[r].per_item_bucket[j[1]], row),
                                               "individual") # None
                 /\ w' = [w EXCEPT ![r] = st.w]
                 /\ h' = [h EXCEPT ![r] = [st.h EXCEPT !.raised = @ \cup {<<j, where>>}]]
                 /\ skipped_items' = st.file
    /\ UNCHANGED <<call, ret, selected_servers, max_threads, start_budget, is_running, executor, start_btn,
                   stop_btn, gui, nruns, upstream, csv_files>>

\* Leaving "with ThreadPoolExecutor": shutdown(wait=True) returns once the
\* pool has run every job still queued or running.  After a RuntimeError the
\* worker goes on to "except Exception" and skips the save.
scrape_worker_exit(r) ==
    /\ w[r].pc \in {"exit", "raised"}
    /\ \A j \in Jobs : w[r].fut[j] \notin {"pending", "running"}
    /\ w' = [w EXCEPT ![r].shut = TRUE,
                      ![r].pc = IF w[r].pc = "raised" THEN "finally" ELSE "save"]
    /\ h' = [h EXCEPT ![r].failed = (w[r].pc = "raised")]
    /\ UNCHANGED <<call, ret, selected_servers, max_threads, start_budget, is_running, executor, start_btn,
                   stop_btn, gui, nruns, upstream, skipped_items, csv_files>>

\* Lines 732-762: merge items_data into the result table.
scrape_worker_save(r) ==
    /\ w[r].pc = "save"
    /\ csv_files' = IF w[r].items_data # {}
                    THEN [csv_files EXCEPT ![w[r].output_file] =
                             merge_rows(@, {DataRow(x) : x \in w[r].items_data})]
                    ELSE csv_files
    /\ w' = [w EXCEPT ![r].pc = "finally"]
    /\ UNCHANGED <<call, ret, selected_servers, max_threads, start_budget, is_running, executor, start_btn,
                   stop_btn, gui, nruns, upstream, skipped_items, h>>

\* Lines 805-809: the finally block.
scrape_worker_finally(r) ==
    /\ w[r].pc = "finally"
    /\ is_running' = FALSE
    /\ start_btn' = "normal"
    /\ stop_btn' = "disabled"
    /\ executor' = 0
    /\ w' = [w EXCEPT ![r].pc = "done"]
    /\ UNCHANGED <<call, ret, selected_servers, max_threads, start_budget, gui, nruns, upstream,
                   skipped_items, csv_files, h>>


\* ------------------------------------------------------------- specification
vars == <<orchVars, fnVars>>

\* The application after __init__: nothing runs, Start enabled, Stop disabled.
InitOrch ==
    /\ is_running = FALSE
    /\ executor = 0
    /\ start_btn = "normal"
    /\ stop_btn = "disabled"
    /\ gui = "idle"
    /\ nruns = 0
    /\ csv_files = [t \in Stamps |-> {}]
    /\ w = [r \in Runs |-> IdleWorker]
    /\ h = [r \in Runs |-> IdleHistory]

InitApp ==
    /\ InitOrch
    /\ call = <<>>
    /\ ret = <<>>

\* A skip file left by earlier runs: empty, or holding the first item.
EarlierSkips ==
    {[k \in SkipKeys |-> NoEntry],
     [k \in SkipKeys |-> IF k = str_int(FromId)
                          THEN [name |-> "Potion", reason |-> NoPrice] ELSE NoEntry]}

\* One press of Start, Stop at any time; one or two servers selected; any
\* document for any job.
Init ==
    /\ InitApp
    /\ selected_servers \in {<<"Asura">>, <<"Asura", "Bahamut">>}
    /\ max_threads \in {1, 2}
    /\ start_budget = 1
    /\ upstream = [j \in Jobs |-> Docs]
    /\ skipped_items \in EarlierSkips

Worker(r) ==
    \/ scrape_worker_enter(r)
    \/ scrape_worker_submit(r)
    \/ \E j \in Jobs : scrape_worker_validate(r, j)
    \/ scrape_worker_validated(r)
    \/ scrape_worker_phase2(r)
    \/ \E j \in Jobs : scrape_worker_result(r, j)
    \/ scrape_worker_results_done(r)
    \/ scrape_worker_exit(r)
    \/ scrape_worker_save(r)
    \/ scrape_worker_finally(r)

Pool(r) ==
    \/ pool_take(r)
    \/ \E j \in Jobs : get_item_data(r, j)

Next ==
    \/ start_scraping
    \/ stop_scraping_flag
    \/ stop_scraping_shutdown
    \/ \E r \in Runs : Worker(r)
    \/ \E r \in Runs : Pool(r)

Spec == Init /\ [][Next]_vars


\* Start, Stop, Start again: Stop enables the Start button while the first
\* worker thread is still alive.  Two servers, every job priced.
InitRestart ==
    /\ InitApp
    /\ selected_servers = <<"Asura", "Bahamut">>
    /\ max_threads = 1
    /\ start_budget = 2
    /\ upstream = [j \in Jobs |-> {DocPriced}]
    /\ skipped_items = [k \in SkipKeys |-> NoEntry]

SpecRestart == InitRestart /\ [][Next]_vars

\* Start, Stop, Start again with the two halves of save_skip as two steps.
\* The first item has no price on the validation server, the last one has
\* a price there and none on the other server.
InitRace ==
    /\ InitApp
    /\ selected_servers = <<"Asura", "Bahamut">>
    /\ max_threads = 1
    /\ start_budget = 2
    /\ upstream = [j \in Jobs |-> IF j[1] = ToId /\ j[2] = "Asura"
                                   THEN {DocPriced} ELSE {DocNoPrice}]
    /\ skipped_items = [k \in SkipKeys |-> NoEntry]

NextRace ==
    \/ start_scraping
    \/ stop_scraping_flag
    \/ stop_scraping_shutdown
    \/ \E r \in Runs : Worker(r)
    \/ \E r \in Runs : Pool(r)
    \/ \E r \in Runs : \E j \in Jobs : save_skip_read(r, j)

SpecRace == InitRace /\ [][NextRace]_vars

\* Three servers selected, one press of Start; the first item priced, without
\* a price or priced higher on each server.
InitThree ==
    /\ InitApp
    /\ selected_servers = <<"Asura", "Bahamut", "Carbuncle">>
    /\ max_threads = 2
    /\ start_budget = 1
    /\ upstream = [j \in Jobs |-> IF j[1] = FromId
                                   THEN {DocNoPrice, DocPriced, DocPricedHigh}
                                   ELSE {DocPriced}]
    /\ skipped_items = [k \in SkipKeys |-> NoEntry]

SpecThree == InitThree /\ [][Next]_vars

\* One press of Start, one or two servers; every document named, flagged or
\* not, with or without a price.
InitFlagged ==
    /\ InitApp
    /\ selected_servers \in {<<"Asura">>, <<"Asura", "Bahamut">>}
    /\ max_threads = 2
    /\ start_budget = 1
    /\ upstream = [j \in Jobs |-> {DocFlagged, DocFlaggedPriced, DocPriced}]
    /\ skipped_items = [k \in SkipKeys |-> NoEntry]

SpecFlagged == InitFlagged /\ [][Next]_vars

\* One press of Start, Stop never pressed, widget calls that may raise.
NextRaise ==
    \/ start_scraping
    \/ \E r \in Runs : Worker(r)
    \/ \E r \in Runs : Pool(r)
    \/ \E r \in Runs : \E j \in Jobs : scrape_worker_validate_raise(r, j)
    \/ \E r \in Runs : \E j \in Jobs : scrape_worker_result_raise(r, j)

InitRaise ==
    /\ InitApp
    /\ selected_servers \in {<<"Asura">>, <<"Asura", "Bahamut">>}
    /\ max_threads = 2
    /\ start_budget = 1
    /\ upstream = [j \in Jobs |-> {None, DocNoPrice, DocPriced}]
    /\ skipped_items = [k \in SkipKeys |-> NoEntry]

SpecRaise == InitRaise /\ [][NextRaise]_vars

\* Start pressed once on entries that may be wrong.  The only range that
\* passes is FromId..ToId, the one the worker then reads; max_threads is
\* the thread entry when that is a number.
RangeEntries == {decimal(FromId), <<Space>> \o decimal(ToId), <<"a", "b", "c">>, <<>>}
ThreadEntries == {decimal(0), decimal(1), decimal(10), decimal(11),
                  <<"-", "1">>, <<"1", ".", "5">>}

InitStart ==
    /\ InitOrch
    /\ call \in [from_var : RangeEntries, to_var : RangeEntries, thread_var : ThreadEntries]
    /\ ret = <<>>
    /\ selected_servers \in {<<>>, <<"Asura", "Bahamut">>}
    /\ max_threads = IF parse_int(call.thread_var) = <<>> THEN 1
                     ELSE parse_int(call.thread_var)[1]
    /\ start_budget = 1
    /\ upstream = [j \in Jobs |-> {DocPriced}]
    /\ skipped_items = [k \in SkipKeys |-> NoEntry]

NextStart ==
    \/ start_scraping_form
    \/ \E r \in Runs : Worker(r)
    \/ \E r \in Runs : Pool(r)

SpecStart == InitStart /\ [][NextStart]_vars

\* The pipeline run MaxRuns times in a row, Stop never pressed: the Start
\* button is enabled again only by the finally block of the run before.
NextRepeat ==
    \/ start_scraping
    \/ \E r \in Runs : Worker(r)
    \/ \E r \in Runs : Pool(r)

InitRepeat ==
    /\ InitApp
    /\ selected_servers \in {<<"Asura">>, <<"Asura", "Bahamut">>}
    /\ max_threads = 2
    /\ start_budget = MaxRuns
    /\ upstream = [j \in Jobs |-> Docs]
    /\ skipped_items = [k \in SkipKeys |-> NoEntry]

SpecRepeat == InitRepeat /\ [][NextRepeat]_vars

\* One press of Start, Stop never pressed; at most one job meets a remote
\* that never answers.  The worker thread and the pool threads are scheduled
\* by the interpreter: a step that stays possible is taken.
SilentJobs == {<<FromId, "Asura">>, <<ToId, "Bahamut">>}

InitSilent ==
    /\ InitApp
    /\ selected_servers \in {<<"Asura">>, <<"Asura", "Bahamut">>}
    /\ max_threads \in {1, 2}
    /\ start_budget = 1
    /\ \E S \in {{}} \cup {{j} : j \in SilentJobs} :
          upstream = [j \in Jobs |-> IF j \in S THEN {Silent}
                                     ELSE {None, DocNoPrice, DocPriced}]
    /\ skipped_items = [k \in SkipKeys |-> NoEntry]

Fairness ==
    /\ WF_vars(start_scraping)
    /\ \A r \in Runs : WF_vars(Worker(r))
    /\ \A r \in Runs : WF_vars(pool_take(r))
    /\ \A r \in Runs : \A j \in Jobs : WF_vars(get_item_data(r, j))

SpecSilent == InitSilent /\ [][NextRepeat]_vars /\ Fairness

\* ------------------------------------------------------------- scraper
\* get_item_data as a function of the page it parsed.  A text is a sequence
\* of characters; "Alexandrite" stands for a run of letters that holds no
\* blank and no digit and does not end in "x".
\* t.replace(",", "")
RECURSIVE replace_comma(_)
replace_comma(t) ==
    IF t = <<>> THEN <<>>
    ELSE IF Head(t) = "," THEN replace_comma(Tail(t))
         ELSE <<Head(t)>> \o replace_comma(Tail(t))

\* price_text = <element>.text.strip().replace(",", "")
price_text(t) == replace_comma(strip(t))

\* The loop over the rows labelled "Median" (or "Last"): the first row whose
\* second cell holds a span with a text of digits gives the price.  A row is
\* [span, text]; span is FALSE when the row has no second cell or no span.
\* The result is <<price>>, or <<>> when no row gave one.
RECURSIVE row_price(_)
row_price(rows) ==
    IF rows = <<>> THEN <<>>
    ELSE IF Head(rows).span /\ isdigit(price_text(Head(rows).text))
         THEN <<int(price_text(Head(rows).text))>>
         ELSE row_price(Tail(rows))

\* The loop over the cells of the tables of class tbl-sales, in document
\* order: the first text of at least two digits whose value is >= 10.
RECURSIVE sales_price(_)
sales_price(cells) ==
    IF cells = <<>> THEN <<>>
    ELSE LET t == price_text(Head(cells))
         IN  IF isdigit(t) /\ Len(t) >= 2 /\ int(t) >= 10
             THEN <<int(t)>>
             ELSE sales_price(Tail(cells))

\* Lines 214-280 with "Last" tried before "Median".
item_price_last_first(page) ==
    IF row_price(page.last) # <<>> THEN row_price(page.last)[1]
    ELSE IF row_price(page.median) # <<>> THEN row_price(page.median)[1]
    ELSE IF sales_price(page.sales) # <<>> THEN sales_price(page.sales)[1]
    ELSE 0

\* Lines 214-280: item_data['price'].
item_price(page) ==
    IF row_price(page.median) # <<>> THEN row_price(page.median)[1]
    ELSE IF row_price(page.last) # <<>> THEN row_price(page.last)[1]
    ELSE IF sales_price(page.sales) # <<>> THEN sales_price(page.sales)[1]
    ELSE 0

\* Lines 133-170, the price of the stack page: "Median", then "Last", else 0.
page_stack_price(stack_page) ==
    IF row_price(stack_page.median) # <<>> THEN row_price(stack_page.median)[1]
    ELSE IF row_price(stack_page.last) # <<>> THEN row_price(stack_page.last)[1]
    ELSE 0

\* The digits that follow position i of a text.
RECURSIVE digit_run(_, _)
digit_run(t, i) ==
    IF i + 1 <= Len(t) /\ t[i + 1] \in Digits
    THEN <<t[i + 1]>> \o digit_run(t, i + 1)
    ELSE <<>>

\* x\d+ matches at position i.
marker_at(t, i) == i + 1 <= Len(t) /\ t[i] = "x" /\ t[i + 1] \in Digits

\* re.search(r'x(\d+)', name_text): <<group(1)>> of the leftmost match, or <<>>.
stack_match(t) ==
    IF \E i \in 1..Len(t) : marker_at(t, i)
    THEN LET i == CHOOSE a \in 1..Len(t) :
                      marker_at(t, a) /\ \A b \in 1..(a - 1) : ~marker_at(t, b)
         IN  <<digit_run(t, i)>>
    ELSE <<>>

\* The number of blanks from position i of a text on.
RECURSIVE blank_run(_, _)
blank_run(t, i) ==
    IF i <= Len(t) /\ t[i] = Space THEN 1 + blank_run(t, i + 1) ELSE 0

\* The name left as it is.
re_sub_none(t, i) == IF i > Len(t) THEN <<>> ELSE SubSeq(t, i, Len(t))

\* re.sub(r'\s*x\d+\s*', '', name_text) from position i on: every match,
\* from the left, without overlap, is dropped.
RECURSIVE re_sub_marker(_, _)
re_sub_marker(t, i) ==
    IF i > Len(t) THEN <<>>
    ELSE LET x == i + blank_run(t, i)
         IN  IF marker_at(t, x)
             THEN LET d == x + Len(digit_run(t, x)) + 1
                  IN  re_sub_marker(t, d + blank_run(t, d))
             ELSE <<t[i]>> \o re_sub_marker(t, i + 1)

\* if 'exclusive' in stats_text or 'ex' in stats_text, and so on: stats is
\* the set of the words looked for that occur in the lowered text of the
\* item-stats span ({} when the page has none).
rarity_flags(stats) ==
    (IF "rare" \in stats THEN {"Rare"} ELSE {})
    \cup (IF "exclusive" \in stats \/ "ex" \in stats THEN {"Exclusive"} ELSE {})
    \cup (IF "no auction" \in stats THEN {"No Auction"} ELSE {})
    \cup (IF "no sale" \in stats THEN {"No Sale"} ELSE {})
    \cup (IF "cursed" \in stats THEN {"Cursed"} ELSE {})
    \cup (IF "temporary" \in stats THEN {"Temporary"} ELSE {})

\* ' > '.join(categories) if categories else 'Unknown'
RECURSIVE join_categories(_)
join_categories(categories) ==
    IF categories = <<>> THEN <<"Unknown">>
    ELSE IF Len(categories) = 1 THEN Head(categories)
    ELSE Head(categories) \o <<Space, ">", Space>> \o join_categories(Tail(categories))

\* Lines 66-72: the stripped texts of the links to "/browse/", in document
\* order, without the empty ones and without 'Root'.
RECURSIVE categories_of(_)
categories_of(links) ==
    IF links = <<>> THEN <<>>
    ELSE LET category == strip(Head(links))
         IN  IF category # <<>> /\ category # <<"Root">>
             THEN <<category>> \o categories_of(Tail(links))
             ELSE categories_of(Tail(links))

\* Line 73: item_data['category'].
category_path(links) == join_categories(categories_of(links))

\* text.split()[0]: <<word>>, the first run of non-blank characters, or <<>>
\* when there is none (IndexError).
RECURSIVE word_from(_)
word_from(t) ==
    IF t = <<>> \/ Head(t) = Space THEN <<>> ELSE <<Head(t)>> \o word_from(Tail(t))

first_word(t) == IF lstrip(t) = <<>> THEN <<>> ELSE <<word_from(lstrip(t))>>

\* round(float(word), 2) in hundredths, <<>> for ValueError.  The words read
\* are digits with at most one "." among them; a third decimal rounds the
\* second one up from 5 on.
float_round2(word) ==
    LET dots == {k \in 1..Len(word) : word[k] = "."}
    IN  IF dots = {}
        THEN IF isdigit(word) THEN <<int(word) * 100>> ELSE <<>>
        ELSE LET k == CHOOSE x \in dots : TRUE
                 a == SubSeq(word, 1, k - 1)
                 b == SubSeq(word, k + 1, Len(word))
             IN  IF /\ Cardinality(dots) = 1
                    /\ a = <<>> \/ isdigit(a)
                    /\ b = <<>> \/ isdigit(b)
                    /\ a # <<>> \/ b # <<>>
                 THEN <<int(a) * 100
                        + (IF Len(b) >= 1 THEN digit_value(b[1]) * 10 ELSE 0)
                        + (IF Len(b) >= 2 THEN digit_value(b[2]) ELSE 0)
                        + (IF Len(b) >= 3 /\ digit_value(b[3]) >= 5 THEN 1 ELSE 0)>>
                 ELSE <<>>

\* Lines 205-212 (and 175-183 on the stack page): spd is <<text>> of the
\* grandparent of the span with id sales-per-day, <<>> without that span.
\* The value is in hundredths.
sold_per_day(spd) ==
    IF spd = <<>> THEN 0
    ELSE IF first_word(spd[1]) = <<>> THEN 0
    ELSE IF float_round2(first_word(spd[1])[1]) = <<>> THEN 0
    ELSE float_round2(first_word(spd[1])[1])[1]

\* Lines 102-203 leaving 'No' when the stack page gave no size.
stack_data_unmarked(page, inline) ==
    LET stack_fetch == ~inline /\ page.stack_link
        sized == /\ stack_fetch
                 /\ page.stack_page.ok
                 /\ page.stack_page.name # <<>>
                 /\ stack_match(strip(page.stack_page.name[1])) # <<>>
    IN  [stackable |-> IF sized THEN stack_match(strip(page.stack_page.name[1]))[1]
                       ELSE <<"No">>,
         stack_price |-> IF sized THEN page_stack_price(page.stack_page) ELSE 0,
         stack_sold_per_day |-> IF sized THEN sold_per_day(page.stack_page.spd) ELSE 0,
         stack_fetch |-> stack_fetch]

\* Lines 102-203: what the stack link adds to the record when the name held
\* no marker.  page.stack_link tells whether the page has a "?stack=1" link
\* and page.stack_page is what that link leads to: [ok, name, median, last,
\* sales, spd], ok FALSE when the request or the parser raises.  stack_fetch
\* tells whether the second request (line 115) was sent.
stack_data(page, inline) ==
    LET stack_fetch == ~inline /\ page.stack_link
        sized == /\ stack_fetch
                 /\ page.stack_page.ok
                 /\ page.stack_page.name # <<>>
                 /\ stack_match(strip(page.stack_page.name[1])) # <<>>
    IN  [stackable |-> IF sized THEN stack_match(strip(page.stack_page.name[1]))[1]
                       ELSE IF stack_fetch THEN <<"Yes">>
                       ELSE <<"No">>,
         stack_price |-> IF sized THEN page_stack_price(page.stack_page) ELSE 0,
         stack_sold_per_day |-> IF sized THEN sold_per_day(page.stack_page.spd) ELSE 0,
         stack_fetch |-> stack_fetch]

\* The dict get_item_data returns for a page that was fetched and parsed.
\* page.name is <<text>> of the item-name span or <<>>.
item_data(item_id, page) ==
    LET name_text == IF page.name = <<>> THEN <<>> ELSE strip(page.name[1])
        inline == page.name # <<>> /\ stack_match(name_text) # <<>>
        name == IF page.name = <<>> THEN <<"Unknown">>
                ELSE IF inline THEN strip(re_sub_marker(name_text, 1))
                ELSE name_text
        stack == stack_data(page, inline)
    IN  [itemid |-> item_id,
         name |-> name,
         category |-> category_path(page.breadcrumb_links),
         stackable |-> IF inline THEN stack_match(name_text)[1] ELSE stack.stackable,
         is_stack_price |-> inline,
         rarity |-> rarity_flags(page.stats),
         price |-> item_price(page),
         sold_per_day |-> sold_per_day(page.spd),
         stack_price |-> stack.stack_price,
         stack_sold_per_day |-> stack.stack_sold_per_day,
         stack_fetch |-> stack.stack_fetch]

\* ------------------------------------------------------------- the functions
\* The application left idle while one function is called on given inputs.
InitIdle ==
    /\ InitOrch
    /\ selected_servers = <<"Asura">>
    /\ max_threads = 1
    /\ start_budget = 0
    /\ upstream = [j \in Jobs |-> {None}]
    /\ skipped_items = [k \in SkipKeys |-> NoEntry]

\* Every list without repetition over a set of servers.
RECURSIVE server_lists(_)
server_lists(S) ==
    {<<>>} \cup UNION {{<<s>> \o l : l \in server_lists(S \ {s})} : s \in S}

ListPrices == {0, 100, 150}
ListStackPrices == {0, 60}

\* The lists _compute_comparison is given: one record of the item per server,
\* in the order the results arrived.
server_data_lists ==
    UNION {{[k \in 1..Len(l) |-> Row(FromId, l[k], Doc("Potion", p[k], sp[k], {}))] :
               p \in [1..Len(l) -> ListPrices], sp \in [1..Len(l) -> ListStackPrices]} :
           l \in server_lists(SERVERS)}

InitCompare ==
    /\ InitIdle
    /\ call \in [item_id : {FromId}, server_data_list : server_data_lists,
                  price_type : {"individual", "stack"}]
    /\ ret = <<>>

CallComputeComparison ==
    /\ ret = <<>>
    /\ ret' = <<_compute_comparison(call.item_id, call.server_data_list, call.price_type)>>
    /\ UNCHANGED <<call, orchVars>>

NextCompare == CallComputeComparison

SpecCompare == InitCompare /\ [][NextCompare]_vars

\* The result table as read back by csv.DictReader, and the rows of a run.
MergeKeys == Items \X {"Asura", "Bahamut"}
csv_read_row(k) ==
    [itemid |-> StrCell(str_int(k[1])), price |-> StrCell(<<5, 0>>),
     stack_price |-> StrCell(<<0>>), name |-> "Potion", server |-> k[2]]
run_row(k) == DataRow(Row(k[1], k[2], DocPriced))

InitMerge ==
    /\ InitIdle
    /\ call \in [existing_rows : {{csv_read_row(k) : k \in K} : K \in SUBSET MergeKeys},
                  items_data : {{run_row(k) : k \in K} : K \in SUBSET MergeKeys}]
    /\ ret = <<>>

CallMergeRows ==
    /\ ret = <<>>
    /\ ret' = <<merge_rows(call.existing_rows, call.items_data)>>
    /\ UNCHANGED <<call, orchVars>>

NextMerge == CallMergeRows

SpecMerge == InitMerge /\ [][NextMerge]_vars

\* The files an interrupted write of lines 759-762 can leave: open(output_file,
\* "w") emptied the file, then the header and the first rows of
\* merged.values() were written.  merged keeps the keys of existing_rows
\* first, then the new keys of items_data; the order inside each group is
\* the order of the file and of items_data, which a set of rows does not
\* keep, so any rows of the group may be the ones written.
partial_writes(existing_rows, items_data) ==
    LET merged == merge_rows(existing_rows, items_data)
        old == {r \in merged : \E e \in existing_rows : _key(e) = _key(r)}
    IN  (SUBSET old) \cup {old \cup new : new \in SUBSET (merged \ old)}

\* The write of the merged rows stopped before the last row (the process is
\* ended, or a write raises into the handler of line 802).
InterruptWriteRows ==
    /\ ret = <<>>
    /\ call.items_data # {}
    /\ \E rows \in partial_writes(call.existing_rows, call.items_data) :
          /\ rows # merge_rows(call.existing_rows, call.items_data)
          /\ ret' = <<rows>>
    /\ UNCHANGED <<call, orchVars>>

NextMergeCrash ==
    \/ CallMergeRows
    \/ InterruptWriteRows

SpecMergeCrash == InitMerge /\ [][NextMergeCrash]_vars

\* Lines 745-749: existing_rows is [] when the file is absent and stays []
\* when open or csv.DictReader raises inside "with suppress(Exception)"
\* (bytes that are not UTF-8, a file another program holds open).
read_rows(file, readable) == IF readable THEN file ELSE {}

\* Lines 733-762: the rows of the output file after the save step.
save_rows(file, readable, items_data) ==
    IF items_data = {} THEN file
    ELSE merge_rows(read_rows(file, readable), items_data)

\* The save step on an output file that can or cannot be read back.
InitSave ==
    /\ InitIdle
    /\ call \in [file : {{csv_read_row(k) : k \in K} : K \in SUBSET MergeKeys},
                  readable : BOOLEAN,
                  items_data : {{run_row(k) : k \in K} : K \in SUBSET MergeKeys}]
    /\ ret = <<>>

CallSaveRows ==
    /\ ret = <<>>
    /\ ret' = <<save_rows(call.file, call.readable, call.items_data)>>
    /\ UNCHANGED <<call, orchVars>>

NextSave == CallSaveRows

SpecSave == InitSave /\ [][NextSave]_vars

\* get_item_data on pages that differ in the rows and cells prices are read
\* from.  The texts: "1,200", " 75 ", "5", "05", "0", "abc", "12.5".
MaxRowCells == 1
MaxSalesCells == 2
T_1200 == <<"1", ",", "2", "0", "0">>
T_75 == <<Space, "7", "5", Space>>
T_5 == <<"5">>
T_05 == <<"0", "5">>
T_0 == <<"0">>
T_abc == <<"a", "b", "c">>
T_12_5 == <<"1", "2", ".", "5">>

\* Every sequence of at most n elements of S.
RECURSIVE seqs_upto(_, _)
seqs_upto(S, n) ==
    IF n = 0 THEN {<<>>}
    ELSE LET shorter == seqs_upto(S, n - 1)
         IN  shorter \cup {Append(q, x) : q \in shorter, x \in S}

NoStackPage ==
    [ok |-> FALSE, name |-> <<>>, median |-> <<>>, last |-> <<>>, sales |-> <<>>,
     spd |-> <<>>]
PotionName == <<"P", "o", "t", "i", "o", "n">>

MedianRows == {[span |-> TRUE, text |-> T_1200], [span |-> TRUE, text |-> T_0],
               [span |-> TRUE, text |-> T_abc], [span |-> FALSE, text |-> <<>>]}
LastRows == {[span |-> TRUE, text |-> T_75], [span |-> TRUE, text |-> T_5],
             [span |-> TRUE, text |-> T_12_5], [span |-> FALSE, text |-> <<>>]}
SalesCells == {T_1200, T_75, T_5, T_05, T_0, T_abc, T_12_5}

PricePages ==
    [name : {<<PotionName>>}, stats : {{}, {"ex"}}, stack_link : {FALSE},
     stack_page : {NoStackPage},
     median : seqs_upto(MedianRows, MaxRowCells),
     last : seqs_upto(LastRows, MaxRowCells),
     sales : seqs_upto(SalesCells, MaxSalesCells),
     spd : {<<>>}, breadcrumb_links : {<<>>}]

InitPrice ==
    /\ InitIdle
    /\ call \in [item_id : {FromId}, page : PricePages]
    /\ ret = <<>>

CallGetItemData ==
    /\ ret = <<>>
    /\ ret' = <<item_data(call.item_id, call.page)>>
    /\ UNCHANGED <<call, orchVars>>

NextPrice == CallGetItemData

SpecPrice == InitPrice /\ [][NextPrice]_vars

\* get_item_data on pages that differ in the text of the item-name span and
\* in the stack link.
MaxName == 5
NameChars == {"Alexandrite", "x", "9", "1", Space}

StackPage ==
    [ok |-> TRUE, name |-> <<<<"Alexandrite", Space, "x", "1", "2">>>>,
     median |-> <<[span |-> TRUE, text |-> T_1200]>>, last |-> <<>>, sales |-> <<>>,
     spd |-> <<>>]

NamePages ==
    [name : {<<t>> : t \in seqs_upto(NameChars, MaxName)}, stats : {{}},
     stack_link : BOOLEAN, stack_page : {StackPage},
     median : {<<[span |-> TRUE, text |-> T_75]>>}, last : {<<>>}, sales : {<<>>},
     spd : {<<>>}, breadcrumb_links : {<<>>}]

InitName ==
    /\ InitIdle
    /\ call \in [item_id : {FromId}, page : NamePages]
    /\ ret = <<>>

NextName == CallGetItemData

SpecName == InitName /\ [][NextName]_vars

\* get_item_data on pages with and without a stack link, whose stack page
\* fails, has no name, a name without a size or a name with one, and holds
\* or lacks each of the three places a price is read from.  The texts of
\* the sales-per-day element: "2.5 sold", "abc", "".
T_spd == <<"2", ".", "5", Space, "s", "o", "l", "d">>
SpdTexts == {<<>>, <<T_spd>>, <<T_abc>>, <<<<>>>>}

StackPages ==
    [ok : BOOLEAN,
     name : {<<>>, <<PotionName>>, <<PotionName \o <<Space, "x", "1", "2">>>>},
     median : {<<>>, <<[span |-> TRUE, text |-> T_1200]>>},
     last : {<<>>, <<[span |-> TRUE, text |-> T_75]>>},
     sales : {<<>>, <<T_75>>},
     spd : {<<>>, <<T_spd>>, <<T_abc>>}]

BundlePages ==
    [name : {<<PotionName>>, <<PotionName \o <<Space, "x", "9", "9">>>>}, stats : {{}},
     stack_link : BOOLEAN, stack_page : StackPages,
     median : {<<>>, <<[span |-> TRUE, text |-> T_1200]>>}, last : {<<>>},
     sales : {<<>>, <<T_75>>},
     spd : SpdTexts, breadcrumb_links : {<<>>}]

InitBundle ==
    /\ InitIdle
    /\ call \in [item_id : {FromId}, page : BundlePages]
    /\ ret = <<>>

NextBundle == CallGetItemData

SpecBundle == InitBundle /\ [][NextBundle]_vars

\* get_item_data on pages with up to MaxLinks links to "/browse/".
MaxLinks == 3
LinkTexts == {<<"Root">>, <<"Weapons">>, <<Space, "Weapons", Space>>, <<"Swords">>, <<Space>>}

CategoryPages ==
    [name : {<<PotionName>>}, stats : {{}}, stack_link : {FALSE},
     stack_page : {NoStackPage}, median : {<<>>}, last : {<<>>}, sales : {<<>>},
     spd : {<<>>}, breadcrumb_links : seqs_upto(LinkTexts, MaxLinks)]

InitCategory ==
    /\ InitIdle
    /\ call \in [item_id : {FromId}, page : CategoryPages]
    /\ ret = <<>>

NextCategory == CallGetItemData

SpecCategory == InitCategory /\ [][NextCategory]_vars

\* save_skip called up to MaxCalls times on an empty skip file.
MaxCalls == 3
Reasons == {NonSellable, NoPrice, NotExist, NoName, FetchFailed}
\* The names passed: the placeholder and two item names.
Names == {"Unknown", "Potion", "Ether"}

InitSkip ==
    /\ InitIdle
    /\ call = <<>>
    /\ ret = <<>>

CallSaveSkip ==
    /\ Len(call) < MaxCalls
    /\ \E i \in Items : \E name \in Names : \E reason \in Reasons :
          /\ skipped_items' = save_skip(skipped_items, i, name, reason)
          /\ call' = Append(call, <<i, name, reason>>)
    /\ UNCHANGED <<ret, selected_servers, max_threads, is_running, executor, start_btn,
                   stop_btn, gui, nruns, start_budget, upstream, csv_files, w, h>>

NextSkip == CallSaveSkip

SpecSkip == InitSkip /\ [][NextSkip]_vars

\* save_skip whose write stops between open(skipped_path, "w") (line 444)
\* and the end of json.dump (445-446): the write raises (caught at 447) or
\* the process is interrupted.  ret keeps the file as it was read.
InterruptSaveSkip ==
    /\ Len(call) < MaxCalls
    /\ skipped_items # Truncated
    /\ \E i \in Items : \E name \in Names : \E reason \in Reasons :
          call' = Append(call, <<i, name, reason>>)
    /\ skipped_items' = Truncated
    /\ ret' = <<skipped_items>>
    /\ UNCHANGED <<selected_servers, max_threads, is_running, executor, start_btn,
                   stop_btn, gui, nruns, start_budget, upstream, csv_files, w, h>>

NextSkipCrash ==
    \/ CallSaveSkip
    \/ InterruptSaveSkip

SpecSkipCrash == InitSkip /\ [][NextSkipCrash]_vars

\* The progress counters of scrape_worker in a run that is not cancelled,
\* as a function of the number of items, of servers, of items found in
\* known_skipped, and of what each job's result was.  A fraction is kept
\* as <<numerator, denominator>>.
MaxItems == 3

max(a, b) == IF a >= b THEN a ELSE b

\* Lines 573 and 605.
current_total(total_items, validated, servers) == total_items + validated * (servers - 1)

\* Line 574: progress = processed_jobs / max(current_total, processed_jobs)
progress(processed_jobs, total) == <<processed_jobs, max(total, processed_jobs)>>

InitProgress ==
    /\ InitIdle
    /\ call \in {c \in [total_items : 2..MaxItems, servers : 1..Cardinality(SERVERS),
                         known : 0..MaxItems] : c.known <= c.total_items}
    /\ ret = <<>>

\* Lines 465-472 and the loops over range(from_id, to_id + 1) (502-509,
\* 611-617): an item of known_skipped counts as processed.
progress_reset ==
    /\ ret = <<>>
    /\ ret' = <<[phase |-> IF call.servers > 1 THEN "validation" ELSE "main",
                 total_jobs |-> call.total_items * max(1, call.servers),
                 processed_jobs |-> call.known,
                 validated |-> 0,
                 waiting |-> call.total_items - call.known,
                 before |-> <<0, 1>>,
                 bar |-> <<0, 1>>]>>
    /\ UNCHANGED <<call, orchVars>>

\* One turn of the validation loop (518-591).  A non-sellable item leaves
\* the body by "continue" (533), before the progress update.
validation_progress ==
    /\ ret # <<>>
    /\ ret[1].phase = "validation"
    /\ ret[1].waiting > 0
    /\ \E outcome \in {"validated", "not validated", "continue"} :
          LET p == ret[1]
              validated == IF outcome = "validated" THEN p.validated + 1 ELSE p.validated
              shown == progress(p.processed_jobs + 1,
                                current_total(call.total_items, validated, call.servers))
          IN  ret' = <<[p EXCEPT !.processed_jobs = @ + 1,
                                 !.validated = validated,
                                 !.waiting = @ - 1,
                                 !.before = IF outcome = "continue" THEN @ ELSE p.bar,
                                 !.bar = IF outcome = "continue" THEN @ ELSE shown]>>
    /\ UNCHANGED <<call, orchVars>>

\* Lines 593-605: the jobs of phase 2 and the new total_jobs.
progress_phase2 ==
    /\ ret # <<>>
    /\ ret[1].phase = "validation"
    /\ ret[1].waiting = 0
    /\ ret' = <<[ret[1] EXCEPT
                   !.phase = "main",
                   !.waiting = ret[1].validated * (call.servers - 1),
                   !.total_jobs = current_total(call.total_items, ret[1].validated,
                                                call.servers)]>>
    /\ UNCHANGED <<call, orchVars>>

\* One turn of the main loop (627-728); the "continue" of lines 648 and 666
\* skips the progress update of 710-711.
main_progress ==
    /\ ret # <<>>
    /\ ret[1].phase = "main"
    /\ ret[1].waiting > 0
    /\ \E outcome \in {"accepted", "continue"} :
          LET p == ret[1]
          IN  ret' = <<[p EXCEPT !.processed_jobs = @ + 1,
                                 !.waiting = @ - 1,
                                 !.before = IF outcome = "continue" THEN @ ELSE p.bar,
                                 !.bar = IF outcome = "continue" THEN @
                                         ELSE <<p.processed_jobs + 1, p.total_jobs>>]>>
    /\ UNCHANGED <<call, orchVars>>

\* Line 791: progress_bar.set(1.0) after the save step.
progress_complete ==
    /\ ret # <<>>
    /\ ret[1].phase = "main"
    /\ ret[1].waiting = 0
    /\ ret' = <<[ret[1] EXCEPT !.phase = "end", !.before = ret[1].bar, !.bar = <<1, 1>>]>>
    /\ UNCHANGED <<call, orchVars>>

NextProgress ==
    \/ progress_reset
    \/ validation_progress
    \/ progress_phase2
    \/ main_progress
    \/ progress_complete

SpecProgress == InitProgress /\ [][NextProgress]_vars

\* ------------------------------------------------------------- properties
past_submit(r) == w[r].pc \notin {"idle", "start", "submit"}
submitted(r) == {j \in Jobs : w[r].fut[j] # "none"}
fails_validation(d) == d = None \/ d.name = "Unknown" \/ non_sellable(d.rarity)

\* C1: in a multi-server run, an item whose validation result is None, is
\* named "Unknown" or carries Exclusive / No Auction / No Sale never gets a
\* job on any of the remaining servers.
C1_ValidationGate ==
    \A r \in Runs : \A i \in Items :
        (/\ is_multi
         /\ <<i, val_sname>> \in h[r].handled
         /\ fails_validation(doc_of(upstream, <<i, val_sname>>)))
        => \A s \in SERVERS \ {val_sname} : <<i, s>> \notin submitted(r)

C1_Witness ==
    \E r \in Runs : \E i, i2 \in Items :
        /\ is_multi
        /\ w[r].pc = "done"
        /\ <<i, val_sname>> \in h[r].handled
        /\ doc_of(upstream, <<i, val_sname>>) = DocFlagged
        /\ \E s \in SERVERS \ {val_sname} : <<i2, s>> \in h[r].handled

\* C2: an item id that is in the skip cache when a run starts is never
\* submitted as a job on any server in that run; it is only reported as
\* "previously skipped" with its stored reason.
C2_KnownSkippedNeverFetched ==
    \A r \in Runs :
        /\ \A j \in submitted(r) : h[r].cache_at_start[str_int(j[1])] = NoEntry
        /\ past_submit(r) =>
              h[r].prev_reported =
                  {<<i, h[r].cache_at_start[str_int(i)].name,
                        h[r].cache_at_start[str_int(i)].reason>> :
                     i \in {x \in Items : h[r].cache_at_start[str_int(x)] # NoEntry}}

C2_Witness ==
    \E r \in Runs :
        /\ w[r].pc = "done"
        /\ h[r].cache_at_start[str_int(FromId)] # NoEntry
        /\ <<FromId, "Potion", NoPrice>> \in h[r].prev_reported
        /\ submitted(r) # {}

\* C3 (as claimed): once stop_scraping has cleared the running flag, the run
\* submits no further job to the pool.
C3_NoSubmitAfterStop ==
    \A r \in Runs : h[r].after_stop = {}

\* C4 (as claimed): a job whose fetch completes after stop_scraping cleared
\* the running flag leaves no row in items_data, no save_skip call and no
\* record in a per-item bucket.
C4_LateResultsDiscarded ==
    \A r \in Runs : \A j \in h[r].late :
        /\ \A x \in w[r].items_data : <<x.itemid, x.server>> # j
        /\ \A c \in h[r].skips : c[1] # j
        /\ \A x \in SeqToSet(w[r].per_item_bucket[j[1]]) : x.server # j[2]

\* C5 (as claimed): in a multi-server run that was not stopped, an item for
\* which every selected server returned a record, at least two of them with
\* a price > 0, has a comparison row once the run has left the main loop.
C5_ComparisonOnceAllReported ==
    \A r \in Runs : \A i \in Items :
        (/\ is_multi
         /\ ~h[r].stop_seen
         /\ w[r].pc \in {"save", "finally", "done"}
         /\ \A s \in server_ids :
               <<i, s>> \in h[r].handled /\ doc_of(upstream, <<i, s>>) # None
         /\ Cardinality({s \in server_ids : doc_of(upstream, <<i, s>>).price > 0}) >= 2)
        => \E k \in 1..Len(w[r].comparison_data) :
              /\ w[r].comparison_data[k].itemid = i
              /\ w[r].comparison_data[k].price_type = "individual"

\* The prices > 0 of a list, counted and summed position by position.
positive(list, price_type) ==
    {k \in 1..Len(list) : price_of(list[k], price_type) > 0}

RECURSIVE total(_, _, _)
total(list, price_type, K) ==
    IF K = {} THEN 0
    ELSE LET k == CHOOSE x \in K : TRUE
         IN  price_of(list[k], price_type) + total(list, price_type, K \ {k})

\* C6: _compute_comparison returns None when fewer than two records have a
\* price > 0; otherwise the server of the least and of the greatest such
\* price, the mean of all such prices, the difference of the two extremes
\* and the number of such records.  {Asura: 100, Bahamut: 0, Carbuncle: 150}
\* gives Asura 100, Carbuncle 150, mean 125, difference 50, count 2.
C6_ComparisonContract ==
    ret # <<>> /\ "server_data_list" \in DOMAIN call =>
        LET list == call.server_data_list
            pt == call.price_type
            K == positive(list, pt)
            out == ret[1]
        IN  IF Cardinality(K) < 2 THEN out = None
            ELSE /\ out # None
                 /\ \E k \in K : /\ list[k].server = out.lowest_server
                                 /\ price_of(list[k], pt) = out.lowest_price
                 /\ \E k \in K : /\ list[k].server = out.highest_server
                                 /\ price_of(list[k], pt) = out.highest_price
                 /\ \A k \in K : /\ out.lowest_price <= price_of(list[k], pt)
                                 /\ out.highest_price >= price_of(list[k], pt)
                 /\ out.average_price.den > 0
                 /\ out.average_price.num * Cardinality(K)
                       = total(list, pt, K) * out.average_price.den
                 /\ out.price_difference = out.highest_price - out.lowest_price
                 /\ out.server_count = Cardinality(K)
                 /\ (/\ pt = "individual"
                     /\ {<<list[k].server, list[k].price>> : k \in 1..Len(list)}
                          = {<<"Asura", 100>>, <<"Bahamut", 0>>, <<"Carbuncle", 150>>})
                    => /\ out.lowest_server = "Asura" /\ out.lowest_price = 100
                       /\ out.highest_server = "Carbuncle" /\ out.highest_price = 150
                       /\ out.average_price.num = 125 * out.average_price.den
                       /\ out.price_difference = 50
                       /\ out.server_count = 2

C6_Witness ==
    /\ ret # <<>>
    /\ "server_data_list" \in DOMAIN call
    /\ call.price_type = "individual"
    /\ Len(call.server_data_list) = 3
    /\ \A k \in 1..3 : call.server_data_list[k].price
                           = (IF call.server_data_list[k].server = "Asura" THEN 100
                              ELSE IF call.server_data_list[k].server = "Bahamut" THEN 0
                              ELSE 150)
    /\ ret[1] # None
    /\ ret[1].server_count = 2

\* A row read back from the file and a row of the run name the same item on
\* the same server.
same_key(e, n) == e.itemid.str = str_int(n.itemid.int) /\ e.server = n.server

\* C7: after the merge every row of the run is in the table, an earlier row
\* of the same (item id, server) is gone, every earlier row of another
\* (item id, server) is kept as it was, and nothing else is in the table.
C7_MergeByKey ==
    ret # <<>> /\ "existing_rows" \in DOMAIN call =>
        LET old == call.existing_rows
            new == call.items_data
            kept == {e \in old : \A n \in new : ~same_key(e, n)}
        IN  ret[1] = {csv_row(n) : n \in new} \cup kept

C7_Witness ==
    /\ ret # <<>>
    /\ "existing_rows" \in DOMAIN call
    /\ call.existing_rows = {csv_read_row(<<FromId, "Asura">>), csv_read_row(<<FromId, "Bahamut">>)}
    /\ call.items_data = {run_row(<<FromId, "Bahamut">>)}
    /\ ret[1] = {csv_read_row(<<FromId, "Asura">>), csv_row(run_row(<<FromId, "Bahamut">>))}

\* C8: a run that follows another over the same range, servers and output
\* path, the catalog unchanged, leaves the result table with the rows it
\* had after the run before.
C8_SecondRunSameRows ==
    \A r \in Runs \ {1} :
        (w[r].pc = "done" /\ w[r].output_file = w[r - 1].output_file)
        => csv_files[w[r].output_file] = h[r].store_at_start[w[r].output_file]

C8_Witness ==
    \E r \in Runs \ {1} :
        /\ w[r].pc = "done"
        /\ w[r].output_file = w[r - 1].output_file
        /\ w[r].items_data # {}
        /\ \E e \in csv_files[w[r].output_file] :
              \A x \in w[r].items_data : ~same_key(e, DataRow(x))

\* The distinct elements of a sequence in the order of their first occurrence.
RECURSIVE first_seen(_)
first_seen(seq) ==
    IF seq = <<>> THEN <<>>
    ELSE LET init == first_seen(SubSeq(seq, 1, Len(seq) - 1))
             last == seq[Len(seq)]
         IN  IF last \in SeqToSet(init) THEN init ELSE Append(init, last)

RECURSIVE reasons_of(_, _)
reasons_of(calls, i) ==
    IF calls = <<>> THEN <<>>
    ELSE IF Head(calls)[1] = i THEN <<Head(calls)[3]>> \o reasons_of(Tail(calls), i)
         ELSE reasons_of(Tail(calls), i)

\* C9: after any sequence of save_skip calls the reasons stored for an item
\* id are the distinct reasons of its calls in first-seen order, joined with
\* "; ": a reason recorded again changes nothing, a new one goes to the end.
C9_ReasonsFirstSeen ==
    \A i \in Items :
        LET rs == first_seen(reasons_of(call, i))
            entry == skipped_items[str_int(i)]
        IN  IF rs = <<>> THEN entry = NoEntry
            ELSE /\ entry # NoEntry
                 /\ reason_parts(entry.reason) = rs
                 /\ entry.reason = join(rs)

C9_Witness ==
    \E i \in Items :
        /\ reasons_of(call, i) = <<NoPrice, NonSellable, NoPrice>>
        /\ reason_parts(skipped_items[str_int(i)].reason) = <<NoPrice, NonSellable>>

\* C10: a handled job whose record has a name and a price <= 0 is recorded in
\* the skip cache as "no price found", or as "non-sellable/non-tradeable"
\* when the record carries Exclusive / No Auction / No Sale, in the validation
\* loop and in the main loop alike.
C10_ReasonPrecedence ==
    \A r \in Runs : \A j \in h[r].handled :
        LET d == doc_of(upstream, j)
            reason == IF d.rarity \cap {"Exclusive", "No Auction", "No Sale"} # {}
                      THEN NonSellable ELSE NoPrice
        IN  (d # None /\ d.name # "Unknown" /\ d.price <= 0)
            => /\ {c \in h[r].skips : c[1] = j} = {<<j, d.name, reason>>}
               /\ skipped_items[str_int(j[1])] # NoEntry
               /\ reason \in SeqToSet(reason_parts(skipped_items[str_int(j[1])].reason))

C10_Witness ==
    \E r \in Runs : \E jv \in validation_jobs : \E jm \in Jobs \ validation_jobs :
        /\ is_multi
        /\ {jv, jm} \subseteq h[r].handled
        /\ jv[1] # jm[1]
        /\ doc_of(upstream, jv) = DocFlagged
        /\ doc_of(upstream, jm) = DocFlagged
        /\ \E jn \in h[r].handled : doc_of(upstream, jn) = DocNoPrice


\* C11 (as claimed): every handled job whose result is None is recorded in
\* the skip cache as "failed to fetch or parse", in the validation loop and
\* in the main loop, in single-server and multi-server mode.
C11_NullIsFetchFailed ==
    \A r \in Runs : \A j \in h[r].handled :
        doc_of(upstream, j) = None
        => /\ <<j, "Unknown", FetchFailed>> \in h[r].skips
           /\ skipped_items[str_int(j[1])] # NoEntry
           /\ FetchFailed \in SeqToSet(reason_parts(skipped_items[str_int(j[1])].reason))

C20_ValidationBarrier ==
    \A r \in Runs : \A j \in submitted(r) :
        (is_multi /\ j[2] # val_sname) => <<j[1], val_sname>> \in h[r].handled

C20_Witness ==
    \E r \in Runs : \E i, i2 \in Items :
        /\ is_multi
        /\ i # i2
        /\ w[r].fut[<<i, "Bahamut">>] = "running"
        /\ <<i, val_sname>> \in h[r].handled
        /\ <<i2, val_sname>> \in h[r].handled
        /\ w[r].fut[<<i2, "Bahamut">>] = "none"

\* What Python makes of each text after strip() and the removal of commas:
\* its value when it is digits only, -1 when it is not.
text_value(t) ==
    CASE t = T_1200 -> 1200 [] t = T_75 -> 75 [] t = T_5 -> 5 [] t = T_05 -> 5
      [] t = T_0 -> 0 [] OTHER -> -1

two_digits(t) == t \in {T_1200, T_75, T_05}

least(K) == CHOOSE k \in K : \A m \in K : k <= m

numeric_rows(rows) == {k \in 1..Len(rows) : rows[k].span /\ text_value(rows[k].text) >= 0}

\* C18: the price is the value of the first "Median" row that is digits;
\* without one, of the first such "Last" row; without one, of the first
\* sales cell of at least two digits and value >= 10; without one, 0.
\* Commas are removed before parsing and a text that is not digits is
\* passed over.
C18_PricePriority ==
    ret # <<>> /\ "page" \in DOMAIN call =>
        LET pg == call.page
            M == numeric_rows(pg.median)
            L == numeric_rows(pg.last)
            S == {k \in 1..Len(pg.sales) :
                     text_value(pg.sales[k]) >= 10 /\ two_digits(pg.sales[k])}
        IN  ret[1].price =
                IF M # {} THEN text_value(pg.median[least(M)].text)
                ELSE IF L # {} THEN text_value(pg.last[least(L)].text)
                ELSE IF S # {} THEN text_value(pg.sales[least(S)])
                ELSE 0

C18_Witness ==
    /\ ret # <<>>
    /\ "page" \in DOMAIN call
    /\ call.page.median = <<[span |-> TRUE, text |-> T_abc]>>
    /\ call.page.last = <<[span |-> TRUE, text |-> T_12_5]>>
    /\ call.page.sales = <<T_05, T_1200>>
    /\ ret[1].price = 1200

markers(t) == {i \in 1..Len(t) : marker_at(t, i)}

\* C19: when the text of the name holds "x" followed by digits, the record
\* has is_stack_price true, the digits of the first such marker as
\* stackable, and no request for the stack page is made; a name with one
\* marker is the text around it with the marker and the blanks next to it
\* taken out.  "Alexandrite x99" gives "Alexandrite", "99", true.
C19_InlineStackMarker ==
    ret # <<>> /\ "page" \in DOMAIN call /\ call.page.name # <<>> =>
        LET t == strip(call.page.name[1])
            out == ret[1]
        IN  IF markers(t) = {}
            THEN out.is_stack_price = FALSE /\ out.name = t
            ELSE LET i == least(markers(t))
                     j == i + Len(digit_run(t, i))
                     pre == SubSeq(t, 1, i - 1)
                     post == SubSeq(t, j + 1, Len(t))
                 IN  /\ out.is_stack_price = TRUE
                     /\ out.stackable = SubSeq(t, i + 1, j)
                     /\ \A k \in 1..Len(out.stackable) : out.stackable[k] \in Digits
                     /\ (j = Len(t) \/ t[j + 1] \notin Digits)
                     /\ ~out.stack_fetch
                     /\ Cardinality(markers(t)) = 1
                           => out.name = strip(rstrip(pre) \o lstrip(post))
                     /\ t = <<"Alexandrite", Space, "x", "9", "9">>
                           => out.name = <<"Alexandrite">> /\ out.stackable = <<"9", "9">>

C19_Witness ==
    /\ ret # <<>>
    /\ "page" \in DOMAIN call
    /\ call.page.name = <<<<"Alexandrite", Space, "x", "9", "9">>>>
    /\ call.page.stack_link
    /\ ret[1].name = <<"Alexandrite">>
    /\ ret[1].stackable = <<"9", "9">>
    /\ ret[1].is_stack_price
    /\ ~ret[1].stack_fetch

\* C12 (as claimed): a handled job whose record carries Exclusive, No Auction
\* or No Sale has no price, leaves no row in items_data and is recorded as
\* "non-sellable/non-tradeable" only, in single-server and multi-server mode.
C12_FlaggedNeverAccepted ==
    \A r \in Runs : \A j \in h[r].handled :
        LET d == doc_of(upstream, j)
        IN  (d # None /\ d.name # "Unknown" /\ non_sellable(d.rarity))
            => /\ d.price = 0
               /\ \A x \in w[r].items_data : <<x.itemid, x.server>> # j
               /\ {c \in h[r].skips : c[1] = j} = {<<j, d.name, NonSellable>>}

\* C13 (as claimed): a run in which handling a job's result raised does
\* not end through "except Exception": it goes on to the save step.
C13_JobExceptionNeverEndsRun ==
    \A r \in Runs :
        h[r].raised # {} => w[r].pc # "raised" /\ ~h[r].failed

\* C14: Start on a range that is not two numbers with from < to, on a
\* thread count that is not a number in 1..10, or with no server selected
\* is rejected: is_running stays false, no worker thread is started and no
\* job is ever submitted.
C14_InvalidStartRejected ==
    "from_var" \in DOMAIN call =>
        LET from_id == parse_int(call.from_var)
            to_id == parse_int(call.to_var)
            threads == parse_int(call.thread_var)
            invalid == \/ from_id = <<>> \/ to_id = <<>> \/ threads = <<>>
                       \/ from_id[1] >= to_id[1]
                       \/ threads[1] \notin 1..10
                       \/ selected_servers = <<>>
        IN  invalid =>
              /\ ~is_running
              /\ nruns = 0
              /\ \A r \in Runs : w[r] = IdleWorker /\ submitted(r) = {}
              /\ start_btn = "normal"
              /\ ret # <<>> => ret[1] # "started"

C14_Witness ==
    /\ "from_var" \in DOMAIN call
    /\ call.from_var = decimal(FromId)
    /\ strip(call.to_var) = decimal(ToId)
    /\ call.thread_var = decimal(11)
    /\ selected_servers # <<>>
    /\ ret = <<"Thread count must be between 1 and 10">>
    /\ ~is_running

\* C15: after a save_skip write that failed or was interrupted, every
\* entry the skip file held before that write can still be loaded from it.
C15_EarlierEntriesSurvive ==
    ret # <<>> =>
        \A k \in skip_keys(ret[1]) : json_load(skipped_items)[k] = ret[1][k]

\* C16: whatever happens to the write of the merged rows, the result file
\* holds at least as many rows afterwards as it held before the run.
C16_NoFewerRows ==
    ret # <<>> => Cardinality(ret[1]) >= Cardinality(call.existing_rows)

\* C21: whatever the order in which the jobs of an item complete, the
\* comparison of the item is computed only on a buffer that holds as many
\* records as markets were requested, and a comparison row of the item is
\* in comparison_data only when its buffer is that long.
C21_ComparisonDeferred ==
    \A r \in Runs :
        /\ \A c \in h[r].compared : c[2] = Len(selected_servers)
        /\ \A k \in 1..Len(w[r].comparison_data) :
              Len(w[r].per_item_bucket[w[r].comparison_data[k].itemid])
                  = Len(selected_servers)

\* The records of the item arrived out of the order of the servers and the
\* comparison was made on the third.
C21_Witness ==
    \E r \in Runs :
        LET bucket == w[r].per_item_bucket[FromId]
        IN  /\ Len(selected_servers) = 3
            /\ Len(bucket) = 3
            /\ bucket[2].server = selected_servers[3]
            /\ bucket[3].server = selected_servers[2]
            /\ <<FromId, 3>> \in h[r].compared
            /\ \E k \in 1..Len(w[r].comparison_data) :
                  w[r].comparison_data[k].itemid = FromId

\* C23 (as claimed): every handled job whose result is a record still named
\* "Unknown" is recorded in the skip cache as "no item name", in the
\* validation loop and in the main loop, in single-server and multi-server
\* mode.
C23_UnknownIsNoItemName ==
    \A r \in Runs : \A j \in h[r].handled :
        doc_of(upstream, j) = DocUnknown
        => /\ <<j, "Unknown", NoName>> \in h[r].skips
           /\ skipped_items[str_int(j[1])] # NoEntry
           /\ NoName \in SeqToSet(reason_parts(skipped_items[str_int(j[1])].reason))

\* C22 (as claimed): at no moment are two threads inside save_skip, between
\* its read of the skip file and its write, and every exclusion a run
\* recorded with save_skip is in the skip file afterwards.
C22_SingleConsumer ==
    /\ Cardinality({r \in Runs : w[r].data # <<>>}) <= 1
    /\ \A r \in Runs : \A c \in h[r].skips :
          /\ skipped_items[str_int(c[1][1])] # NoEntry
          /\ c[3] \in SeqToSet(reason_parts(skipped_items[str_int(c[1][1])].reason))

\* C24: a save_skip call on an item that has an entry changes the stored
\* name only when that name is "Unknown" and the call supplies another one,
\* which then becomes the stored name; a stored name other than "Unknown"
\* stays whatever name the call supplies, and no other entry's name moves.
C24_NameBackfilledOnlyWhenUnknown ==
    [][\A k \in SkipKeys :
          skipped_items[k] # NoEntry /\ Len(call') = Len(call) + 1 =>
            LET c == call'[Len(call')]
                stored == skipped_items[k].name
                backfill == str_int(c[1]) = k /\ stored = "Unknown" /\ c[2] # "Unknown"
            IN  skipped_items'[k].name = IF backfill THEN c[2] ELSE stored]_vars

\* The entry was created without a name, named by the second call, and kept
\* that name when the third call supplied another.
C24_Witness ==
    /\ Len(call) = 3
    /\ \A n \in 1..3 : call[n][1] = FromId
    /\ call[1][2] = "Unknown" /\ call[2][2] = "Potion" /\ call[3][2] = "Ether"
    /\ skipped_items[str_int(FromId)] # NoEntry
    /\ skipped_items[str_int(FromId)].name = "Potion"

\* C25 (as claimed): no step of the program takes an item out of the skip
\* file or a reason out of an entry's list of reasons.
C25_SkipCacheGrowsOnly ==
    [][\A k \in SkipKeys :
          skipped_items[k] # NoEntry =>
            /\ skipped_items'[k] # NoEntry
            /\ SeqToSet(reason_parts(skipped_items[k].reason))
                  \subseteq SeqToSet(reason_parts(skipped_items'[k].reason))]_vars

\* C26: every comparison row of a run, for unit prices or for bundle
\* prices, counts at least two servers, has a lowest price > 0, a mean
\* between the lowest and the highest price, a difference equal to highest
\* minus lowest, and names as lowest and highest server two selected
\* servers whose record of the item in the run's buffer carries that price.
C26_ComparisonRowInvariant ==
    \A r \in Runs : \A k \in 1..Len(w[r].comparison_data) :
        LET c == w[r].comparison_data[k]
            bucket == w[r].per_item_bucket[c.itemid]
        IN  /\ c.server_count >= 2
            /\ c.lowest_price > 0
            /\ c.average_price.den > 0
            /\ c.lowest_price * c.average_price.den <= c.average_price.num
            /\ c.average_price.num <= c.highest_price * c.average_price.den
            /\ c.price_difference = c.highest_price - c.lowest_price
            /\ c.lowest_server \in server_ids
            /\ c.highest_server \in server_ids
            /\ \E n \in 1..Len(bucket) :
                  /\ bucket[n].server = c.lowest_server
                  /\ price_of(bucket[n], c.price_type) = c.lowest_price
            /\ \E n \in 1..Len(bucket) :
                  /\ bucket[n].server = c.highest_server
                  /\ price_of(bucket[n], c.price_type) = c.highest_price

\* A run emitted a unit-price row and a bundle-price row for one item, the
\* unit-price row with two different extremes.
C26_Witness ==
    \E r \in Runs :
        /\ Len(w[r].comparison_data) = 2
        /\ w[r].comparison_data[1].price_type = "individual"
        /\ w[r].comparison_data[1].lowest_price < w[r].comparison_data[1].highest_price
        /\ w[r].comparison_data[1].server_count = 3
        /\ w[r].comparison_data[2].price_type = "stack"
        /\ w[r].comparison_data[2].itemid = w[r].comparison_data[1].itemid
        /\ w[r].comparison_data[2].server_count = 2

\* C27 (as claimed): the bundle fields of a returned record are never
\* partly filled: stackable is 'No' with stack price 0 and stack sales per
\* day 0, or it is a size with stack price and stack sales per day read from
\* a stack page that was requested and parsed.  The marker 'Yes' of a stack
\* page that gave no size, with both values 0, is let through as well.
C27_BundleNeverPartial ==
    ret # <<>> /\ "page" \in DOMAIN call =>
        LET out == ret[1]
            stack_page == call.page.stack_page
        IN  \/ /\ out.stackable \in {<<"No">>, <<"Yes">>}
               /\ out.stack_price = 0
               /\ out.stack_sold_per_day = 0
            \/ /\ isdigit(out.stackable)
               /\ out.stack_fetch
               /\ stack_page.ok
               /\ out.stack_price = page_stack_price(stack_page)
               /\ out.stack_sold_per_day = sold_per_day(stack_page.spd)

\* C28: when the page has a stack link, the name holds no size, and the
\* stack page cannot be fetched or parsed, or has no name or no size in its
\* name, a record is returned with stackable 'Yes', stack price 0 and stack
\* sales per day 0, and its name, category, flags, price and sales per day
\* are those of the same page with a stack page that gives a size.
C28_StackFailureKeepsUnitData ==
    ret # <<>> /\ "page" \in DOMAIN call =>
        LET out == ret[1]
            page == call.page
            failed == \/ ~page.stack_page.ok
                      \/ page.stack_page.name = <<>>
                      \/ markers(strip(page.stack_page.name[1])) = {}
            good == item_data(call.item_id, [page EXCEPT !.stack_page = StackPage])
        IN  page.stack_link /\ markers(strip(page.name[1])) = {} /\ failed =>
              /\ out.stack_fetch
              /\ out.stackable = <<"Yes">>
              /\ out.stack_price = 0
              /\ out.stack_sold_per_day = 0
              /\ isdigit(good.stackable)
              /\ out.name = good.name
              /\ out.category = good.category
              /\ out.rarity = good.rarity
              /\ out.price = good.price
              /\ out.sold_per_day = good.sold_per_day

\* The request for the stack page failed; the record has the marker and the
\* price and sales per day of the first page.
C28_Witness ==
    /\ ret # <<>>
    /\ "page" \in DOMAIN call
    /\ call.page.stack_link
    /\ call.page.name = <<PotionName>>
    /\ ~call.page.stack_page.ok
    /\ call.page.median = <<[span |-> TRUE, text |-> T_1200]>>
    /\ call.page.spd = <<T_spd>>
    /\ ret[1].stackable = <<"Yes">>
    /\ ret[1].stack_price = 0
    /\ ret[1].price = 1200
    /\ ret[1].sold_per_day = 250

\* C29 (as claimed): the stack price of a record whose size came from the
\* stack page is what the extraction of the unit price gives on the tables
\* of that page: "Median", then "Last", then the first sales cell of two
\* digits or more and value >= 10, then 0.
C29_SamePriceExtraction ==
    ret # <<>> /\ "page" \in DOMAIN call =>
        (ret[1].stack_fetch /\ isdigit(ret[1].stackable)
            => ret[1].stack_price = item_price(call.page.stack_page))

\* The elements of a sequence without those that occurred before.
RECURSIVE first_occurrences(_)
first_occurrences(q) ==
    IF q = <<>> THEN <<>>
    ELSE LET front == SubSeq(q, 1, Len(q) - 1)
         IN  IF q[Len(q)] \in SeqToSet(front)
             THEN first_occurrences(front)
             ELSE Append(first_occurrences(front), q[Len(q)])

\* C30 (as claimed): the category is the texts of the breadcrumb links in
\* order, stripped, without the empty ones, without 'Root' and without
\* repetitions, joined by ' > ', and 'Unknown' when none is left.
C30_CategoryDeduplicated ==
    ret # <<>> /\ "page" \in DOMAIN call =>
        ret[1].category =
            join_categories(first_occurrences(categories_of(call.page.breadcrumb_links)))

\* C31: within one run no (item, server) pair is passed to executor.submit
\* twice; in particular a job whose result was None, or whose handling
\* raised, has been submitted exactly once.
occurrences(seq, x) == Cardinality({k \in 1..Len(seq) : seq[k] = x})

C31_NoResubmission ==
    \A r \in Runs :
        /\ \A j \in Jobs : occurrences(h[r].submitted, j) <= 1
        /\ SeqToSet(h[r].submitted) = submitted(r)
        /\ \A j \in h[r].handled :
              doc_of(upstream, j) = None => occurrences(h[r].submitted, j) = 1

\* C31 witness: a finished two-server run that made the phase-2
\* submissions after a validation job and a phase-2 job returned None.
C31_Witness ==
    \E r \in Runs :
        /\ w[r].pc = "done"
        /\ is_multi
        /\ Len(h[r].submitted) > Cardinality(Items)
        /\ \E j \in h[r].handled \cap validation_jobs : doc_of(upstream, j) = None
        /\ \E j \in h[r].handled \ validation_jobs : doc_of(upstream, j) = None

\* C32: no request waits for ever, so every submitted job finishes with a
\* record or None, and a run that is not cancelled reaches its save step
\* and its finally block, which clears is_running.
C32_RunTerminates ==
    \A r \in Runs :
        (w[r].pc = "start") ~>
            (/\ w[r].pc = "done"
             /\ ~h[r].failed
             /\ \A j \in Jobs : w[r].fut[j] \in {"none", "handled"}
             /\ ~is_running)

\* C33: at most one scrape_worker thread is alive at any time; Start does
\* not begin a run while the thread of a stopped run is still draining
\* its jobs, saving or in its finally block.
C33_OneActiveRun == Cardinality({r \in Runs : alive(r)}) <= 1

\* C34: while a run is alive, is_running is False exactly if Stop was
\* pressed during that run, and self.executor names that run's pool once
\* the run has set it: no other run's start or finally block changes them.
C34_FlagOwnedByRun ==
    \A r \in Runs :
        alive(r) =>
            IF h[r].stop_seen THEN ~is_running
            ELSE is_running /\ (w[r].pc # "start" => executor = r)

\* C35: a run that has ended made no save_skip call for an item of which
\* it accepted a row on some server: no item is both in the skip file
\* because of this run and in this run's items_data.
skipped_by(r) == {s[1][1] : s \in h[r].skips}
accepted_by(r) == {row.itemid : row \in w[r].items_data}

C35_SkippedOnlyIfNothingAccepted ==
    \A r \in Runs :
        w[r].pc = "done" =>
            \A i \in skipped_by(r) \cap accepted_by(r) :
                str_int(i) \notin skip_keys(skipped_items)

\* C36: a run during which Stop was pressed, in whatever phase, does not
\* leave through "except Exception", and when it has ended every row it
\* accepted is in the result table at its output path.
C36_CancelledRunSaves ==
    \A r \in Runs :
        h[r].stop_seen =>
            /\ w[r].pc \notin {"raised"} /\ ~h[r].failed
            /\ w[r].pc = "done" =>
                  \A x \in w[r].items_data :
                      csv_row(DataRow(x)) \in csv_files[w[r].output_file]

\* C37: when the output file exists and cannot be read, the save step
\* leaves in it every row it held, except those the run wrote anew under
\* the same (item id, server).
C37_UnreadableTableKept ==
    (ret # <<>> /\ "readable" \in DOMAIN call /\ ~call.readable /\ call.file # {}) =>
        \A e \in call.file :
            (\E n \in call.items_data : same_key(e, n)) \/ e \in ret[1]

\* C38: in the comparison_data of a run no item has two rows for unit
\* prices or two rows for bundle prices, and _compute_comparison was
\* called on the item's bucket at most once, whatever the order in which
\* the jobs of the item completed.
comparison_rows(r, i, price_type) ==
    {k \in 1..Len(w[r].comparison_data) :
        /\ w[r].comparison_data[k].itemid = i
        /\ w[r].comparison_data[k].price_type = price_type}

C38_OneComparisonPerItem ==
    \A r \in Runs : \A i \in Items :
        /\ Cardinality(comparison_rows(r, i, "individual")) <= 1
        /\ Cardinality(comparison_rows(r, i, "stack")) <= 1
        /\ Cardinality({c \in h[r].compared : c[1] = i}) <= 1

\* C38 witness: a finished three-server run holds one row of each kind for
\* the first item and one for the last, the first item's second and third
\* server having answered in the other order than the last item's.
C38_Witness ==
    \E r \in Runs :
        /\ w[r].pc = "done"
        /\ Cardinality(comparison_rows(r, FromId, "individual")) = 1
        /\ Cardinality(comparison_rows(r, FromId, "stack")) = 1
        /\ Cardinality(comparison_rows(r, ToId, "individual")) = 1
        /\ Len(w[r].per_item_bucket[FromId]) = 3
        /\ Len(w[r].per_item_bucket[ToId]) = 3
        /\ w[r].per_item_bucket[FromId][2].server # w[r].per_item_bucket[ToId][2].server

\* C39: the fraction set on the progress bar has 0 <= numerator <=
\* denominator, is never below the fraction it replaces, also in the
\* validation phase where the total grows, and when the last job has been
\* handled processed_jobs equals total_jobs.
C39_ProgressMonotone ==
    (ret # <<>> /\ "total_items" \in DOMAIN call) =>
        LET p == ret[1]
        IN  /\ p.bar[2] > 0
            /\ 0 <= p.bar[1] /\ p.bar[1] <= p.bar[2]
            /\ p.before[1] * p.bar[2] <= p.bar[1] * p.before[2]
            /\ p.phase = "end" => p.processed_jobs = p.total_jobs

====
